---- MODULE Spec2Model ----
(***************************************************************************)
(* Jarurat Care patient-support backend: the rule-based urgency classifier *)
(* (aiService: processWithMockAI, calculateUrgency, generateSummary) and   *)
(* the FAQ chatbot (chatbotService: findMatchingIntent, processMessage).   *)
(*                                                                         *)
(* JavaScript strings are modelled as sequences of one-character strings,  *)
(* so that String.prototype.includes, toLowerCase, trim and substring are  *)
(* computed character by character as the engine computes them.            *)
(***************************************************************************)
EXTENDS Integers, Sequences, FiniteSets, TLC

VARIABLES
  patientData,     \* the argument of processWithMockAI / the inputs of calculateUrgency
  aiPc,            \* "ready" before the classifier ran, then the entry point that ran
  calcDescription, \* the description argument calculateUrgency received
  urgency,         \* the value calculateUrgency returned
  summary,         \* the value generateSummary returned
  served,          \* the calls of processWithMockAI so far: its argument and its result
  userMessage,     \* the argument of processMessage (a JavaScript value)
  chatPc,          \* "ready" before processMessage ran, "replied" after
  matchedIntent,   \* the value findMatchingIntent returned inside processMessage
  chatReply,       \* the object processMessage resolved with
  envKey,          \* process.env.OPENAI_API_KEY when aiService was loaded
  reqBody,         \* req.body of the support request being handled
  supPc,           \* where handleSupportRequest (or validateSupportRequest) stands
  validationError, \* the value validateSupportRequest returned
  llmCalls,        \* calls of openai.chat.completions.create made for the request
  mockCalls,       \* calls of processWithMockAI made for the request
  llmOutcome,      \* how the promise of openai.chat.completions.create settled
  aiResponse,      \* the value processPatientIssue resolved with
  responses,       \* the HTTP responses sent for the request, in order
  nodeEnv,         \* process.env.NODE_ENV
  err,             \* the error passed to the errorHandler middleware
  mwPc,            \* "ready" before errorHandler ran, "sent" after
  errorResponse,   \* the response errorHandler sent
  shownResult,     \* the result prop ResultDisplay is rendered with
  chipPc,          \* "ready" before the result screen rendered, "rendered" after
  chipDetails,     \* what CategoryChip displays: the category details, or nothing
  messages,        \* ChatBot state: the messages shown in the chat panel
  typing,          \* ChatBot state: the typing indicator
  timeouts,        \* the pending 900 ms timers of handleSend, each with its msg
  sent,            \* the non-blank messages handleSend was called with, in order
  appFormData,     \* App state formData: the data of the last successful submission
  appResult,       \* App state result: empty for null, else the one result
  showResult,      \* App state showResult
  appPc,           \* the App handler that ran last
  fields,          \* PatientSupportForm state formData (while the form is mounted)
  errors,          \* PatientSupportForm state errors: the messages by field
  isSubmitting,    \* PatientSupportForm state isSubmitting
  apiError,        \* PatientSupportForm state apiError
  pending,         \* the requestData of the submitSupportRequest call being awaited
  apiRequests,     \* calls of submitSupportRequest so far
  submits,         \* calls of handleSubmit so far
  lastSubmit,      \* the last handleSubmit call: its data, the API result, its outcome
  toasts,          \* App state toasts
  toastId,         \* the module-level toast id counter
  timers,          \* per mounted Toast: ms/100 left on hideTimer and removeTimer
  hidden,          \* ids of the mounted Toasts whose isVisible is false
  closeTimers,     \* pending 200 ms timers of handleClose: id and ms/100 left
  otherRenders     \* App re-renders not caused by a change of toasts

aiVars == <<patientData, aiPc, calcDescription, urgency, summary, served>>
chatVars == <<userMessage, chatPc, matchedIntent, chatReply>>
supVars == <<envKey, reqBody, supPc, validationError, llmCalls, mockCalls,
             llmOutcome, aiResponse, responses>>
mwVars == <<nodeEnv, err, mwPc, errorResponse>>
backVars == <<aiVars, chatVars, supVars, mwVars>>
chipVars == <<shownResult, chipPc, chipDetails>>
widgetVars == <<messages, typing, timeouts, sent>>
formVars == <<appFormData, appResult, showResult, appPc, fields, errors, isSubmitting,
              apiError, pending, apiRequests, submits, lastSubmit>>
toastVars == <<toasts, toastId, timers, hidden, closeTimers, otherRenders>>
uiVars == <<chipVars, widgetVars, formVars, toastVars>>
vars == <<backVars, uiVars>>

----------------------------------------------------------------------------
(* Bounds of the model *)

\* a description is the concatenation of at most this many fragments
MaxFrags == 2
\* a chat message is the concatenation of at most this many fragments
MaxMsgFrags == 2
\* handleSend of the chat widget receives at most this many non-blank messages
MaxSent == 3
\* the form's handleSubmit is called at most this many times
MaxSubmits == 2
\* the toasts list holds at most this many toasts at a time
MaxToasts == 2
\* the App re-renders at most this many times for a change of its other state
MaxRenders == 1
\* processWithMockAI is called at most this many times in a row
MaxServed == 2

----------------------------------------------------------------------------
(* JavaScript string primitives on character sequences *)

UpperChars ==
  <<"A","B","C","D","E","F","G","H","I","J","K","L","M",
    "N","O","P","Q","R","S","T","U","V","W","X","Y","Z">>
LowerChars ==
  <<"a","b","c","d","e","f","g","h","i","j","k","l","m",
    "n","o","p","q","r","s","t","u","v","w","x","y","z">>
WhiteSpace == {" ", "\t", "\n"}

toLowerCaseChar(c) ==
  IF \E i \in DOMAIN UpperChars : UpperChars[i] = c
    THEN LowerChars[CHOOSE i \in DOMAIN UpperChars : UpperChars[i] = c]
    ELSE c

\* String.prototype.toLowerCase
toLowerCase(s) == [i \in DOMAIN s |-> toLowerCaseChar(s[i])]

\* String.prototype.includes: keyword occurs in s as a contiguous substring
includes(s, keyword) ==
  \E i \in 0..(Len(s) - Len(keyword)) :
    \A j \in 1..Len(keyword) : s[i + j] = keyword[j]

\* String.prototype.substring(from, to), 0-based, end exclusive
substring(s, from, to) ==
  LET hi == IF to > Len(s) THEN Len(s) ELSE to
  IN  SubSeq(s, from + 1, hi)

RECURSIVE trimStart(_)
trimStart(s) ==
  IF s # <<>> /\ Head(s) \in WhiteSpace THEN trimStart(Tail(s)) ELSE s

RECURSIVE trimEnd(_)
trimEnd(s) ==
  IF s # <<>> /\ s[Len(s)] \in WhiteSpace
    THEN trimEnd(SubSeq(s, 1, Len(s) - 1))
    ELSE s

\* String.prototype.trim
trim(s) == trimEnd(trimStart(s))

\* Array.prototype.some(keyword => s.includes(keyword))
someIncluded(keywords, s) ==
  \E k \in DOMAIN keywords : includes(s, keywords[k])

----------------------------------------------------------------------------
(* aiService: the rule-based classifier *)

highUrgencyKeywords ==
  << <<"e","m","e","r","g","e","n","c","y">>,  \* emergency
     <<"s","e","v","e","r","e">>,  \* severe
     <<"u","n","b","e","a","r","a","b","l","e">>,  \* unbearable
     <<"c","h","e","s","t"," ","p","a","i","n">>,  \* chest pain
     <<"b","r","e","a","t","h","i","n","g">>,  \* breathing
     <<"s","u","i","c","i","d","e">>,  \* suicide
     <<"b","l","o","o","d">>,  \* blood
     <<"a","c","c","i","d","e","n","t">>,  \* accident
     <<"u","n","c","o","n","s","c","i","o","u","s">>,  \* unconscious
     <<"h","e","a","r","t"," ","a","t","t","a","c","k">>,  \* heart attack
     <<"s","t","r","o","k","e">>,  \* stroke
     <<"p","o","i","s","o","n","i","n","g">>,  \* poisoning
     <<"o","v","e","r","d","o","s","e">>,  \* overdose
     <<"c","o","l","l","a","p","s","e">>,  \* collapse
     <<"s","e","i","z","u","r","e">>,  \* seizure
     <<"n","o","t"," ","b","r","e","a","t","h","i","n","g">>,  \* not breathing
     <<"d","y","i","n","g">>,  \* dying
     <<"c","r","i","t","i","c","a","l">>,  \* critical
     <<"u","r","g","e","n","t">>,  \* urgent
     <<"i","m","m","e","d","i","a","t","e","l","y">> >>  \* immediately

mediumUrgencyKeywords ==
  << <<"f","e","v","e","r">>,  \* fever
     <<"p","a","i","n">>,  \* pain
     <<"i","n","f","e","c","t","i","o","n">>,  \* infection
     <<"s","w","e","l","l","i","n","g">>,  \* swelling
     <<"p","e","r","s","i","s","t","e","n","t">>,  \* persistent
     <<"r","e","c","u","r","r","i","n","g">>,  \* recurring
     <<"a","n","x","i","e","t","y">>,  \* anxiety
     <<"d","e","p","r","e","s","s","i","o","n">>,  \* depression
     <<"s","t","r","e","s","s">>,  \* stress
     <<"c","h","r","o","n","i","c">>,  \* chronic
     <<"m","e","d","i","c","a","t","i","o","n">>,  \* medication
     <<"w","o","r","s","e","n","i","n","g">>,  \* worsening
     <<"c","o","n","c","e","r","n","i","n","g">>,  \* concerning
     <<"t","r","o","u","b","l","e"," ","s","l","e","e","p","i","n","g">>,  \* trouble sleeping
     <<"l","o","s","s"," ","o","f"," ","a","p","p","e","t","i","t","e">>,  \* loss of appetite
     <<"w","e","a","k","n","e","s","s">>,  \* weakness
     <<"d","i","z","z","y">>,  \* dizzy
     <<"n","a","u","s","e","a">> >>  \* nausea

\* calculateUrgency with && in place of || in the High test
calculateUrgency_andCategory(description, category, age) ==
  LET hasHighUrgency == someIncluded(highUrgencyKeywords, description)
      hasMediumUrgency == someIncluded(mediumUrgencyKeywords, description)
  IN  IF hasHighUrgency /\ category = "Emergency"
        THEN "High"
        ELSE IF hasMediumUrgency \/ category = "Mental Health"
                \/ (age >= 65 /\ Len(description) > 30)
          THEN "Medium"
          ELSE "Low"

\* calculateUrgency with the Emergency category test left out
calculateUrgency_noEmergency(description, category, age) ==
  LET hasHighUrgency == someIncluded(highUrgencyKeywords, description)
      hasMediumUrgency == someIncluded(mediumUrgencyKeywords, description)
  IN  IF hasHighUrgency
        THEN "High"
        ELSE IF hasMediumUrgency \/ category = "Mental Health"
                \/ (age >= 65 /\ Len(description) > 30)
          THEN "Medium"
          ELSE "Low"

\* calculateUrgency with the Mental Health category test left out
calculateUrgency_noMentalHealth(description, category, age) ==
  LET hasHighUrgency == someIncluded(highUrgencyKeywords, description)
      hasMediumUrgency == someIncluded(mediumUrgencyKeywords, description)
  IN  IF hasHighUrgency \/ category = "Emergency"
        THEN "High"
        ELSE IF hasMediumUrgency \/ (age >= 65 /\ Len(description) > 30)
          THEN "Medium"
          ELSE "Low"

\* calculateUrgency with age > 65 in place of age >= 65
calculateUrgency_ageOver65(description, category, age) ==
  LET hasHighUrgency == someIncluded(highUrgencyKeywords, description)
      hasMediumUrgency == someIncluded(mediumUrgencyKeywords, description)
  IN  IF hasHighUrgency \/ category = "Emergency"
        THEN "High"
        ELSE IF hasMediumUrgency \/ category = "Mental Health"
                \/ (age > 65 /\ Len(description) > 30)
          THEN "Medium"
          ELSE "Low"

\* calculateUrgency with || in place of && in the elderly test
calculateUrgency_ageOrLength(description, category, age) ==
  LET hasHighUrgency == someIncluded(highUrgencyKeywords, description)
      hasMediumUrgency == someIncluded(mediumUrgencyKeywords, description)
  IN  IF hasHighUrgency \/ category = "Emergency"
        THEN "High"
        ELSE IF hasMediumUrgency \/ category = "Mental Health"
                \/ (age >= 65 \/ Len(description) > 30)
          THEN "Medium"
          ELSE "Low"

\* calculateUrgency whose elderly test asks for a short description
calculateUrgency_shortElderly(description, category, age) ==
  LET hasHighUrgency == someIncluded(highUrgencyKeywords, description)
      hasMediumUrgency == someIncluded(mediumUrgencyKeywords, description)
  IN  IF hasHighUrgency \/ category = "Emergency"
        THEN "High"
        ELSE IF hasMediumUrgency \/ category = "Mental Health"
                \/ (age >= 65 /\ Len(description) < 30)
          THEN "Medium"
          ELSE "Low"

\* calculateUrgency returning 'high' in place of 'High'
calculateUrgency_lowercaseHigh(description, category, age) ==
  LET hasHighUrgency == someIncluded(highUrgencyKeywords, description)
      hasMediumUrgency == someIncluded(mediumUrgencyKeywords, description)
  IN  IF hasHighUrgency \/ category = "Emergency"
        THEN "high"
        ELSE IF hasMediumUrgency \/ category = "Mental Health"
                \/ (age >= 65 /\ Len(description) > 30)
          THEN "Medium"
          ELSE "Low"

\* calculateUrgency without its final return: the call yields undefined
calculateUrgency_noDefault(description, category, age) ==
  LET hasHighUrgency == someIncluded(highUrgencyKeywords, description)
      hasMediumUrgency == someIncluded(mediumUrgencyKeywords, description)
  IN  IF hasHighUrgency \/ category = "Emergency"
        THEN "High"
        ELSE IF hasMediumUrgency \/ category = "Mental Health"
                \/ (age >= 65 /\ Len(description) > 30)
          THEN "Medium"
          ELSE "undefined"

calculateUrgency(description, category, age) ==
  LET hasHighUrgency == someIncluded(highUrgencyKeywords, description)
      hasMediumUrgency == someIncluded(mediumUrgencyKeywords, description)
  IN  IF hasHighUrgency \/ category = "Emergency"
        THEN "High"
        ELSE IF hasMediumUrgency \/ category = "Mental Health"
                \/ (age >= 65 /\ Len(description) > 30)
          THEN "Medium"
          ELSE "Low"

\* the own keys of the summaryTemplates object literal
summaryTemplateKeys == {"Medical", "Mental Health", "Emergency", "Other"}
\* property names every object inherits from Object.prototype
ObjectPrototypeKeys == {"constructor", "toString", "valueOf", "hasOwnProperty"}

\* summaryTemplates[category] || summaryTemplates['Other']: the key whose member is
\* returned (an inherited member is a function, which is truthy)
summaryTemplateLookup(category) ==
  IF category \in summaryTemplateKeys THEN category
  ELSE IF category \in ObjectPrototypeKeys THEN category
  ELSE "Other"

\* the summary is the chosen template with ${age} and ${issuePreview} filled in;
\* an inherited Object.prototype member is returned as it is (not a string)
generateSummary(category, description, age) ==
  LET issuePreview ==
        IF Len(description) > 100
          THEN trim(substring(description, 0, 100)) \o <<".", ".", ".">>
          ELSE description
      template == summaryTemplateLookup(category)
  IN  IF template \in summaryTemplateKeys
        THEN [type |-> "string", template |-> template, age |-> age,
              issuePreview |-> issuePreview]
        ELSE [type |-> "function", template |-> template, age |-> age,
              issuePreview |-> <<>>]

----------------------------------------------------------------------------
(* Inputs of the classifier *)

DescriptionFragments ==
  { <<"m","i","l","d"," ","h","e","a","d","a","c","h","e"," ","f","o","r"," ","t","w","o"," ","d","a","y","s">>,
    <<" ","s","o","o","n">>,
    <<" ","n","o","w">>,
    <<" ","a","n","d"," ","a"," ","r","u","n","n","y"," ","n","o","s","e"," ","s","i","n","c","e"," ","m","o","n","d","a","y">>,
    <<"s","e","v","e","r","e"," ","c","h","e","s","t"," ","p","a","i","n"," ","a","n","d"," ","c","a","n","'","t"," ","b","r","e","a","t","h","e">>,
    <<"C","h","e","s","t"," ">>,
    <<"p","a","i","n">>,
    <<"F","E","V","E","R">> }

RECURSIVE Concatenations(_, _)
Concatenations(frags, n) ==
  IF n = 0 THEN { <<>> }
  ELSE LET shorter == Concatenations(frags, n - 1)
       IN  shorter \cup { s \o f : s \in shorter, f \in frags }

Descriptions == Concatenations(DescriptionFragments, MaxFrags)
Categories == summaryTemplateKeys \cup {"Pediatric", "constructor"}
Ages == {0, 30, 64, 65, 72, 150}
Names == {"Asha"}

PatientInputs ==
  [name : Names, age : Ages, issueCategory : Categories, description : Descriptions]

NoValue == "undefined"
\* no completion promise exists
NoOutcome == [kind |-> "none"]

AiInit ==
  /\ patientData \in PatientInputs
  /\ aiPc = "ready"
  /\ calcDescription = <<>>
  /\ urgency = NoValue
  /\ summary = NoValue
  /\ served = <<>>

\* processWithMockAI(patientData)
ProcessWithMockAI ==
  /\ aiPc = "ready"
  /\ LET age == patientData.age
         issueCategory == patientData.issueCategory
         description == patientData.description
         lowerDescription == toLowerCase(description)
     IN  /\ calcDescription' = lowerDescription
         /\ urgency' = calculateUrgency(lowerDescription, issueCategory, age)
         /\ summary' = generateSummary(issueCategory, description, age)
  /\ aiPc' = "processWithMockAI"
  /\ UNCHANGED <<patientData, served, chatVars, supVars, mwVars, uiVars>>

\* calculateUrgency applied to the inputs as they are
CalculateUrgency ==
  /\ aiPc = "ready"
  /\ calcDescription' = patientData.description
  /\ urgency' = calculateUrgency(patientData.description,
                                 patientData.issueCategory, patientData.age)
  /\ aiPc' = "calculateUrgency"
  /\ UNCHANGED <<patientData, summary, served, chatVars, supVars, mwVars, uiVars>>

----------------------------------------------------------------------------
(* chatbotService: the FAQ chatbot *)

EMERGENCY_KEYWORDS ==
  << <<"e","m","e","r","g","e","n","c","y">>,  \* emergency
     <<"d","y","i","n","g">>,  \* dying
     <<"s","u","i","c","i","d","e">>,  \* suicide
     <<"s","u","i","c","i","d","a","l">>,  \* suicidal
     <<"k","i","l","l"," ","m","y","s","e","l","f">>,  \* kill myself
     <<"h","e","a","r","t"," ","a","t","t","a","c","k">>,  \* heart attack
     <<"s","t","r","o","k","e">>,  \* stroke
     <<"o","v","e","r","d","o","s","e">>,  \* overdose
     <<"b","l","e","e","d","i","n","g"," ","h","e","a","v","i","l","y">>,  \* bleeding heavily
     <<"c","a","n","'","t"," ","b","r","e","a","t","h","e">>,  \* can't breathe
     <<"c","a","n","n","o","t"," ","b","r","e","a","t","h","e">>,  \* cannot breathe
     <<"u","n","c","o","n","s","c","i","o","u","s">>,  \* unconscious
     <<"s","e","i","z","u","r","e">>,  \* seizure
     <<"c","h","e","s","t"," ","p","a","i","n">>,  \* chest pain
     <<"s","e","v","e","r","e"," ","p","a","i","n">>,  \* severe pain
     <<"a","c","c","i","d","e","n","t">>,  \* accident
     <<"p","o","i","s","o","n","i","n","g">> >>  \* poisoning

keywords_greeting ==
  << <<"h","e","l","l","o">>,  \* hello
     <<"h","i">>,  \* hi
     <<"h","e","y">>,  \* hey
     <<"g","o","o","d"," ","m","o","r","n","i","n","g">>,  \* good morning
     <<"g","o","o","d"," ","e","v","e","n","i","n","g">>,  \* good evening
     <<"n","a","m","a","s","t","e">> >>  \* namaste

keywords_services ==
  << <<"w","h","a","t"," ","s","u","p","p","o","r","t">>,  \* what support
     <<"w","h","a","t"," ","s","e","r","v","i","c","e","s">>,  \* what services
     <<"w","h","a","t"," ","d","o"," ","y","o","u"," ","p","r","o","v","i","d","e">>,  \* what do you provide
     <<"w","h","a","t"," ","h","e","l","p">>,  \* what help
     <<"w","h","a","t"," ","c","a","n"," ","y","o","u"," ","d","o">>,  \* what can you do
     <<"h","o","w"," ","c","a","n"," ","y","o","u"," ","h","e","l","p">> >>  \* how can you help

keywords_response_time ==
  << <<"h","o","w"," ","l","o","n","g">>,  \* how long
     <<"w","h","e","n"," ","w","i","l","l">>,  \* when will
     <<"r","e","s","p","o","n","s","e"," ","t","i","m","e">>,  \* response time
     <<"w","a","i","t"," ","t","i","m","e">>,  \* wait time
     <<"h","o","w"," ","f","a","s","t">>,  \* how fast
     <<"w","h","e","n"," ","c","a","n"," ","i"," ","e","x","p","e","c","t">> >>  \* when can i expect

keywords_medical_service ==
  << <<"m","e","d","i","c","a","l"," ","s","e","r","v","i","c","e">>,  \* medical service
     <<"d","o","c","t","o","r">>,  \* doctor
     <<"d","i","a","g","n","o","s","e">>,  \* diagnose
     <<"d","i","a","g","n","o","s","i","s">>,  \* diagnosis
     <<"p","r","e","s","c","r","i","b","e">>,  \* prescribe
     <<"m","e","d","i","c","i","n","e">>,  \* medicine
     <<"t","r","e","a","t","m","e","n","t">>,  \* treatment
     <<"m","e","d","i","c","a","l"," ","a","d","v","i","c","e">> >>  \* medical advice

keywords_data_safety ==
  << <<"d","a","t","a"," ","s","a","f","e">>,  \* data safe
     <<"p","r","i","v","a","c","y">>,  \* privacy
     <<"c","o","n","f","i","d","e","n","t","i","a","l">>,  \* confidential
     <<"s","e","c","u","r","e">>,  \* secure
     <<"w","h","o"," ","s","e","e","s">>,  \* who sees
     <<"s","h","a","r","e"," ","m","y"," ","i","n","f","o","r","m","a","t","i","o","n">> >>  \* share my information

keywords_volunteer ==
  << <<"v","o","l","u","n","t","e","e","r">>,  \* volunteer
     <<"w","h","o"," ","h","e","l","p","s">>,  \* who helps
     <<"w","h","o"," ","r","e","s","p","o","n","d","s">>,  \* who responds
     <<"s","t","a","f","f">>,  \* staff
     <<"t","e","a","m">> >>  \* team

keywords_how_to_submit ==
  << <<"s","u","b","m","i","t">>,  \* submit
     <<"r","e","q","u","e","s","t">>,  \* request
     <<"f","o","r","m">>,  \* form
     <<"h","o","w"," ","t","o"," ","a","p","p","l","y">>,  \* how to apply
     <<"h","o","w"," ","t","o"," ","g","e","t"," ","h","e","l","p">>,  \* how to get help
     <<"f","i","l","l"," ","o","u","t">> >>  \* fill out

keywords_cost ==
  << <<"c","o","s","t">>,  \* cost
     <<"f","e","e">>,  \* fee
     <<"c","h","a","r","g","e">>,  \* charge
     <<"p","r","i","c","e">>,  \* price
     <<"p","a","y","m","e","n","t">>,  \* payment
     <<"f","r","e","e">>,  \* free
     <<"m","o","n","e","y">> >>  \* money

keywords_mental_health ==
  << <<"m","e","n","t","a","l"," ","h","e","a","l","t","h">>,  \* mental health
     <<"a","n","x","i","e","t","y">>,  \* anxiety
     <<"d","e","p","r","e","s","s","i","o","n">>,  \* depression
     <<"s","t","r","e","s","s">>,  \* stress
     <<"c","o","u","n","s","e","l","i","n","g">>,  \* counseling
     <<"t","h","e","r","a","p","y">>,  \* therapy
     <<"s","a","d">>,  \* sad
     <<"w","o","r","r","i","e","d">> >>  \* worried

keywords_thanks ==
  << <<"t","h","a","n","k">>,  \* thank
     <<"t","h","a","n","k","s">>,  \* thanks
     <<"t","h","a","n","k"," ","y","o","u">>,  \* thank you
     <<"a","p","p","r","e","c","i","a","t","e">> >>  \* appreciate

keywords_bye ==
  << <<"b","y","e">>,  \* bye
     <<"g","o","o","d","b","y","e">>,  \* goodbye
     <<"s","e","e"," ","y","o","u">>,  \* see you
     <<"t","a","k","e"," ","c","a","r","e">> >>  \* take care

\* the intents in registration order; a response is given by its first sentence
FAQ_INTENTS ==
  << [id |-> "greeting", keywords |-> keywords_greeting,
      response |-> "Hello! Welcome to Jarurat Care. I'm here to help answer your questions about our healthcare support services. How can I assist you today?"],
     [id |-> "services", keywords |-> keywords_services,
      response |-> "Jarurat Care provides healthcare support services including: ..."],
     [id |-> "response_time", keywords |-> keywords_response_time,
      response |-> "Our response times depend on the urgency of your request: ..."],
     [id |-> "medical_service", keywords |-> keywords_medical_service,
      response |-> "Important: Jarurat Care is a support coordination service, NOT a medical provider. ..."],
     [id |-> "emergency", keywords |-> EMERGENCY_KEYWORDS,
      response |-> "IMPORTANT: If you are experiencing a medical emergency, please contact emergency services IMMEDIATELY. ..."],
     [id |-> "data_safety", keywords |-> keywords_data_safety,
      response |-> "Your privacy is important to us. Here's how we handle your data: ..."],
     [id |-> "volunteer", keywords |-> keywords_volunteer,
      response |-> "Our support is provided by trained volunteers who: ..."],
     [id |-> "how_to_submit", keywords |-> keywords_how_to_submit,
      response |-> "To submit a support request: ..."],
     [id |-> "cost", keywords |-> keywords_cost,
      response |-> "Jarurat Care is an NGO providing FREE healthcare support coordination services. ..."],
     [id |-> "mental_health", keywords |-> keywords_mental_health,
      response |-> "Mental health is just as important as physical health. Jarurat Care can help connect you with: ..."],
     [id |-> "thanks", keywords |-> keywords_thanks,
      response |-> "You're welcome! We're here to help. If you have any more questions or need support, feel free to ask or submit a support request through our form. Take care!"],
     [id |-> "bye", keywords |-> keywords_bye,
      response |-> "Take care! Remember, we're here whenever you need support. Don't hesitate to reach out. Wishing you good health!"] >>

DEFAULT_RESPONSE ==
  "I understand you have a question. While I may not have a specific answer for that, here's what I can help with: ..."

SAFETY_DISCLAIMER ==
  "\n\n---\n_Disclaimer: This chatbot provides general guidance only. It does not provide medical advice, diagnosis, or treatment. For medical concerns, please consult a healthcare professional._"

\* the value null, shaped like an intent so that it compares with one
null == [id |-> "null", keywords |-> <<>>, response |-> "null"]

containsEmergencyKeywords(message) ==
  LET lowerMessage == toLowerCase(message)
  IN  \E k \in DOMAIN EMERGENCY_KEYWORDS :
        includes(lowerMessage, toLowerCase(EMERGENCY_KEYWORDS[k]))

\* intent.keywords.filter(keyword => lowerMessage.includes(keyword.toLowerCase())).length
matchCount(intent, lowerMessage) ==
  Cardinality({ k \in DOMAIN intent.keywords :
                  includes(lowerMessage, toLowerCase(intent.keywords[k])) })

\* the for loop of findMatchingIntent from intent number i on
RECURSIVE bestMatchFrom(_, _, _, _)
bestMatchFrom(i, lowerMessage, bestMatch, bestScore) ==
  IF i > Len(FAQ_INTENTS) THEN bestMatch
  ELSE LET intent == FAQ_INTENTS[i]
       IN  IF intent.id = "emergency"
             THEN bestMatchFrom(i + 1, lowerMessage, bestMatch, bestScore)
             ELSE LET count == matchCount(intent, lowerMessage)
                  IN  IF count > bestScore
                        THEN bestMatchFrom(i + 1, lowerMessage, intent, count)
                        ELSE bestMatchFrom(i + 1, lowerMessage, bestMatch, bestScore)

\* the for loop with matchCount >= bestScore in place of matchCount > bestScore
RECURSIVE bestMatchFrom_orEqual(_, _, _, _)
bestMatchFrom_orEqual(i, lowerMessage, bestMatch, bestScore) ==
  IF i > Len(FAQ_INTENTS) THEN bestMatch
  ELSE LET intent == FAQ_INTENTS[i]
       IN  IF intent.id = "emergency"
             THEN bestMatchFrom_orEqual(i + 1, lowerMessage, bestMatch, bestScore)
             ELSE LET count == matchCount(intent, lowerMessage)
                  IN  IF count >= bestScore
                        THEN bestMatchFrom_orEqual(i + 1, lowerMessage, intent, count)
                        ELSE bestMatchFrom_orEqual(i + 1, lowerMessage, bestMatch, bestScore)

\* findMatchingIntent where a later intent with an equal count replaces the best one
findMatchingIntent_orEqual(message) ==
  LET lowerMessage == toLowerCase(message)
  IN  IF containsEmergencyKeywords(message)
        THEN FAQ_INTENTS[CHOOSE i \in DOMAIN FAQ_INTENTS :
                           /\ FAQ_INTENTS[i].id = "emergency"
                           /\ \A j \in 1..(i - 1) : FAQ_INTENTS[j].id # "emergency"]
        ELSE bestMatchFrom_orEqual(1, lowerMessage, null, 0)

\* findMatchingIntent where the emergency check is made only when scoring found nothing
findMatchingIntent_scoreFirst(message) ==
  LET lowerMessage == toLowerCase(message)
      scored == bestMatchFrom(1, lowerMessage, null, 0)
  IN  IF scored = null /\ containsEmergencyKeywords(message)
        THEN FAQ_INTENTS[CHOOSE i \in DOMAIN FAQ_INTENTS :
                           /\ FAQ_INTENTS[i].id = "emergency"
                           /\ \A j \in 1..(i - 1) : FAQ_INTENTS[j].id # "emergency"]
        ELSE scored

findMatchingIntent(message) ==
  LET lowerMessage == toLowerCase(message)
  IN  IF containsEmergencyKeywords(message)
        THEN FAQ_INTENTS[CHOOSE i \in DOMAIN FAQ_INTENTS :
                           /\ FAQ_INTENTS[i].id = "emergency"
                           /\ \A j \in 1..(i - 1) : FAQ_INTENTS[j].id # "emergency"]
        ELSE bestMatchFrom(1, lowerMessage, null, 0)

\* JavaScript values a request body can carry as message: type is the value's
\* typeof, chars the characters of a string (for another value, empty when the
\* value is falsy and its JSON text otherwise)
JsString(s) == [type |-> "string", chars |-> s]
JsUndefined == [type |-> "undefined", chars |-> <<>>]
JsNull == [type |-> "object", chars |-> <<>>]
JsZero == [type |-> "number", chars |-> <<>>]
JsFortyTwo == [type |-> "number", chars |-> <<"4", "2">>]
JsEmptyObject == [type |-> "object", chars |-> <<"{", "}">>]

\* !value: undefined, null, 0 and the empty string are falsy
falsy(value) ==
  \/ value.type = "undefined"
  \/ value.type \in {"object", "number", "string"} /\ value.chars = <<>>

\* processMessage whose reply to a missing or non-string message lacks the disclaimer
processMessage_bareInvalidReply(message) ==
  IF falsy(message) \/ message.type # "string"
    THEN [intent |-> null,
          reply |-> <<"I didn't receive a message. How can I help you today?">>]
  ELSE LET trimmedMessage == trim(message.chars)
       IN  IF Len(trimmedMessage) = 0
             THEN [intent |-> null,
                   reply |-> <<"Please type a message so I can assist you.",
                               SAFETY_DISCLAIMER>>]
             ELSE LET matched == findMatchingIntent(trimmedMessage)
                      response == IF matched # null THEN matched.response
                                  ELSE DEFAULT_RESPONSE
                  IN  [intent |-> matched, reply |-> <<response, SAFETY_DISCLAIMER>>]

\* processMessage without the branch for a message that is empty after trimming
processMessage_noEmptyBranch(message) ==
  IF falsy(message) \/ message.type # "string"
    THEN [intent |-> null,
          reply |-> <<"I didn't receive a message. How can I help you today?",
                      SAFETY_DISCLAIMER>>]
  ELSE LET trimmedMessage == trim(message.chars)
           matched == findMatchingIntent(trimmedMessage)
           response == IF matched # null THEN matched.response
                       ELSE DEFAULT_RESPONSE
       IN  [intent |-> matched, reply |-> <<response, SAFETY_DISCLAIMER>>]

\* the reply text is the template literal `${response}${SAFETY_DISCLAIMER}`,
\* kept as the sequence of its two parts
processMessage(message) ==
  IF falsy(message) \/ message.type # "string"
    THEN [intent |-> null,
          reply |-> <<"I didn't receive a message. How can I help you today?",
                      SAFETY_DISCLAIMER>>]
  ELSE LET trimmedMessage == trim(message.chars)
       IN  IF Len(trimmedMessage) = 0
             THEN [intent |-> null,
                   reply |-> <<"Please type a message so I can assist you.",
                               SAFETY_DISCLAIMER>>]
             ELSE LET matched == findMatchingIntent(trimmedMessage)
                      response == IF matched # null THEN matched.response
                                  ELSE DEFAULT_RESPONSE
                  IN  [intent |-> matched, reply |-> <<response, SAFETY_DISCLAIMER>>]

----------------------------------------------------------------------------
(* Inputs of the chatbot *)

MessageFragments ==
  { <<"h","e","l","l","o">>,
    <<","," ","w","h","a","t"," ","s","e","r","v","i","c","e","s"," ","d","o"," ","y","o","u"," ","p","r","o","v","i","d","e","?">>,
    <<" ","w","h","a","t"," ","h","e","l","p">>,
    <<"T","h","a","n","k"," ","y","o","u">>,
    <<" ","I"," ","h","a","v","e"," ","C","H","E","S","T"," ","P","A","I","N">>,
    <<" ","t","h","i","s">>,
    <<" ","d","o","c","t","o","r">>,
    <<"x","y","z">>,
    <<" "," ">>,
    <<" ","E","m","e","r","g","e","n","c","y">> }

Messages ==
  { JsString(s) : s \in Concatenations(MessageFragments, MaxMsgFrags) }
    \cup {JsUndefined, JsNull, JsZero, JsFortyTwo, JsEmptyObject}

ChatInit ==
  /\ userMessage \in Messages
  /\ chatPc = "ready"
  /\ matchedIntent = null
  /\ chatReply = [reply |-> <<>>]

\* processMessage(userMessage)
ProcessMessage ==
  /\ chatPc = "ready"
  /\ LET result == processMessage(userMessage)
     IN  /\ matchedIntent' = result.intent
         /\ chatReply' = [reply |-> result.reply]
  /\ chatPc' = "replied"
  /\ UNCHANGED <<userMessage, aiVars, supVars, mwVars, uiVars>>

----------------------------------------------------------------------------
(* validators: validateSupportRequest *)

JsTrue == [type |-> "boolean", chars |-> <<"t", "r", "u", "e">>]
\* the JSON number with the given text
JsNumber(text) == [type |-> "number", chars |-> text]

Digits == <<"0", "1", "2", "3", "4", "5", "6", "7", "8", "9">>
isDigit(c) == \E d \in DOMAIN Digits : Digits[d] = c
digitValue(c) == (CHOOSE d \in DOMAIN Digits : Digits[d] = c) - 1

\* the value of a string of decimal digits
RECURSIVE digitsValue(_)
digitsValue(s) ==
  IF s = <<>> THEN 0
  ELSE 10 * digitsValue(SubSeq(s, 1, Len(s) - 1)) + digitValue(s[Len(s)])

\* a JavaScript number: NaN, or a sign, an integer part and whether a non-zero
\* fractional part follows it
NaN == [nan |-> TRUE, neg |-> FALSE, int |-> 0, frac |-> FALSE]
Num(neg, int, frac) == [nan |-> FALSE, neg |-> neg, int |-> int, frac |-> frac]

\* the number a decimal literal denotes (StringToNumber on trimmed text): the
\* empty text is 0; an optional sign, digits and an optional fraction; else NaN
parseDecimal(text) ==
  IF text = <<>> THEN Num(FALSE, 0, FALSE)
  ELSE LET signed == Head(text) \in {"-", "+"}
           neg == Head(text) = "-"
           body == IF signed THEN Tail(text) ELSE text
           dots == { i \in DOMAIN body : body[i] = "." }
           dot == IF dots = {} THEN Len(body) + 1 ELSE CHOOSE i \in dots : TRUE
           intPart == SubSeq(body, 1, dot - 1)
           fracPart == SubSeq(body, dot + 1, Len(body))
       IN  IF \/ Cardinality(dots) > 1
              \/ intPart = <<>> /\ fracPart = <<>>
              \/ \E i \in DOMAIN intPart : ~isDigit(intPart[i])
              \/ \E i \in DOMAIN fracPart : ~isDigit(fracPart[i])
             THEN NaN
             ELSE Num(neg, digitsValue(intPart),
                      \E i \in DOMAIN fracPart : fracPart[i] # "0")

\* Number(value)
Number(value) ==
  CASE value.type = "undefined" -> NaN
    [] value.type = "number" -> parseDecimal(value.chars)
    [] value.type = "string" -> parseDecimal(trim(value.chars))
    [] value.type = "boolean" -> IF falsy(value) THEN Num(FALSE, 0, FALSE)
                                 ELSE Num(FALSE, 1, FALSE)
    [] OTHER -> IF falsy(value) THEN Num(FALSE, 0, FALSE) ELSE NaN

isNaN(n) == n.nan
\* n < 0
lessThanZero(n) == ~n.nan /\ n.neg /\ (n.int > 0 \/ n.frac)
\* n > k, for an integer k >= 0
greaterThan(n, k) == ~n.nan /\ ~n.neg /\ (n.int > k \/ (n.int = k /\ n.frac))

validCategories == <<"Medical", "Mental Health", "Emergency", "Other">>

\* validateSupportRequest with >= in place of > in the two upper length bounds
validateSupportRequest_upperExclusive(data) ==
  LET name == data.name
      age == data.age
      issueCategory == data.issueCategory
      description == data.description
      numericAge == Number(age)
  IN  IF falsy(name) \/ name.type # "string" \/ Len(trim(name.chars)) < 2
        THEN "Name is required and must be at least 2 characters"
      ELSE IF Len(trim(name.chars)) >= 100
        THEN "Name must be less than 100 characters"
      ELSE IF age = JsUndefined \/ age = JsNull
        THEN "Age is required"
      ELSE IF isNaN(numericAge) \/ lessThanZero(numericAge)
              \/ greaterThan(numericAge, 150)
        THEN "Age must be a valid number between 0 and 150"
      ELSE IF issueCategory \in {NoValue, ""}
              \/ ~\E i \in DOMAIN validCategories : validCategories[i] = issueCategory
        THEN "Issue category must be one of: Medical, Mental Health, Emergency, Other"
      ELSE IF falsy(description) \/ description.type # "string"
              \/ Len(trim(description.chars)) < 10
        THEN "Description is required and must be at least 10 characters"
      ELSE IF Len(trim(description.chars)) >= 2000
        THEN "Description must be less than 2000 characters"
      ELSE "null"

\* validateSupportRequest({ name, age, issueCategory, description }): the error
\* message, or "null"
validateSupportRequest(data) ==
  LET name == data.name
      age == data.age
      issueCategory == data.issueCategory
      description == data.description
      numericAge == Number(age)
  IN  IF falsy(name) \/ name.type # "string" \/ Len(trim(name.chars)) < 2
        THEN "Name is required and must be at least 2 characters"
      ELSE IF Len(trim(name.chars)) > 100
        THEN "Name must be less than 100 characters"
      ELSE IF age = JsUndefined \/ age = JsNull
        THEN "Age is required"
      ELSE IF isNaN(numericAge) \/ lessThanZero(numericAge)
              \/ greaterThan(numericAge, 150)
        THEN "Age must be a valid number between 0 and 150"
      ELSE IF issueCategory \in {NoValue, ""}
              \/ ~\E i \in DOMAIN validCategories : validCategories[i] = issueCategory
        THEN "Issue category must be one of: Medical, Mental Health, Emergency, Other"
      ELSE IF falsy(description) \/ description.type # "string"
              \/ Len(trim(description.chars)) < 10
        THEN "Description is required and must be at least 10 characters"
      ELSE IF Len(trim(description.chars)) > 2000
        THEN "Description must be less than 2000 characters"
      ELSE "null"

----------------------------------------------------------------------------
(* aiService: processPatientIssue, processWithOpenAI, processWithMockAI *)

PLACEHOLDER_KEY ==
  <<"y","o","u","r","_","o","p","e","n","a","i","_","a","p","i","_","k","e","y",
    "_","h","e","r","e">>

\* openai built for every non-empty key, the placeholder included
openaiConfigured_anyKey(key) == ~falsy(key)

\* the module-level constant openai is a client (not null)
openaiConfigured(key) == ~falsy(key) /\ key # JsString(PLACEHOLDER_KEY)

\* the number that `age >= 65` compares with 65, reduced to an integer: for a
\* number below zero or NaN the comparison is false, as it is for -1
relationalOperand(age) ==
  LET n == Number(age)
  IN  IF n.nan \/ n.neg THEN 0 - 1 ELSE n.int

\* what a call can end with: a returned value or a thrown exception
Returned(value) == [threw |-> FALSE, value |-> value]
Thrown(error) == [threw |-> TRUE, value |-> error]

\* processWithMockAI that puts the patient's name into the summary
processWithMockAI_usesName(data) ==
  LET lowerDescription == toLowerCase(data.description.chars)
      named == generateSummary(data.issueCategory, data.description.chars, data.age)
  IN  Returned([summary |-> [named EXCEPT !.issuePreview = data.name.chars \o <<":">> \o @],
                urgency |-> calculateUrgency(lowerDescription, data.issueCategory,
                                             relationalOperand(data.age))])

\* processWithMockAI(patientData), the data holding the request's values
processWithMockAI(data) ==
  LET age == data.age
      issueCategory == data.issueCategory
      description == data.description
  IN  IF description.type # "string"
        THEN Thrown("TypeError: description.toLowerCase is not a function")
        ELSE LET lowerDescription == toLowerCase(description.chars)
             IN  Returned([summary |-> generateSummary(issueCategory,
                                                       description.chars, age),
                           urgency |-> calculateUrgency(lowerDescription, issueCategory,
                                                        relationalOperand(age))])

\* the tokens of a completion's text: punctuation, string and number literals,
\* the literal null, and words of prose
Punct(p) == [t |-> p, v |-> ""]
Str(text) == [t |-> "str", v |-> text]
Numeral(text) == [t |-> "num", v |-> text]
Word(text) == [t |-> "word", v |-> text]

isValueToken(tok) == tok.t \in {"str", "num", "null"}

\* the tokens are `{`, then key : value pairs separated by commas, then `}`
isObjectText(tokens) ==
  /\ Len(tokens) >= 2
  /\ tokens[1].t = "{"
  /\ tokens[Len(tokens)].t = "}"
  /\ LET inner == SubSeq(tokens, 2, Len(tokens) - 1)
     IN  \/ inner = <<>>
         \/ /\ Len(inner) % 4 = 3
            /\ \A i \in DOMAIN inner :
                 CASE i % 4 = 1 -> inner[i].t = "str"
                   [] i % 4 = 2 -> inner[i].t = ":"
                   [] i % 4 = 3 -> isValueToken(inner[i])
                   [] OTHER -> inner[i].t = ","

\* JSON.parse(content): the parsed value, or a thrown SyntaxError
JSONparse(tokens) ==
  IF Len(tokens) = 1 /\ isValueToken(tokens[1])
    THEN Returned([kind |-> "primitive", tokens |-> tokens])
  ELSE IF isObjectText(tokens)
    THEN Returned([kind |-> "object", tokens |-> tokens])
  ELSE Thrown("SyntaxError")

\* a value of the parsed JSON as a JavaScript value
tokenValue(tok) ==
  [type |-> CASE tok.t = "str" -> "string" [] tok.t = "num" -> "number"
              [] OTHER -> "object",
   text |-> tok.v]
undefinedValue == [type |-> "undefined", text |-> ""]

\* parsed[key] for a parsed value that is not null: the value of the last pair
\* with that key, undefined when there is none (or parsed is a string or number)
property(parsed, key) ==
  LET at == { i \in DOMAIN parsed.tokens :
                /\ parsed.kind = "object"
                /\ i % 4 = 2 /\ i + 2 <= Len(parsed.tokens)
                /\ parsed.tokens[i] = Str(key) }
  IN  IF at = {} THEN undefinedValue
      ELSE tokenValue(parsed.tokens[(CHOOSE i \in at : \A j \in at : j <= i) + 2])

validateUrgency(urgencyValue) ==
  IF urgencyValue.type = "string" /\ urgencyValue.text \in {"Low", "Medium", "High"}
    THEN urgencyValue.text
    ELSE "Medium"

\* how the promise of openai.chat.completions.create can settle
Rejected(error) == [kind |-> "rejected", error |-> error, content |-> <<>>]
Resolved(content) == [kind |-> "resolved", error |-> "", content |-> content]
\* a completion whose message.content is null
ResolvedNoContent == [kind |-> "resolved-null-content", error |-> "", content |-> <<>>]

\* the try block of processWithOpenAI once the promise has settled
openAIAttempt(outcome) ==
  IF outcome.kind = "rejected" THEN Thrown(outcome.error)
  ELSE IF outcome.kind = "resolved-null-content"
    THEN Thrown("TypeError: Cannot read properties of null (reading 'trim')")
  ELSE LET parsed == JSONparse(outcome.content)
       IN  IF parsed.threw THEN parsed
           ELSE IF parsed.value.kind = "primitive" /\ parsed.value.tokens[1].t = "null"
             THEN Thrown("TypeError: Cannot read properties of null (reading 'summary')")
           ELSE Returned([summary |-> property(parsed.value, "summary"),
                          urgency |-> validateUrgency(property(parsed.value, "urgency"))])

\* processWithOpenAI whose catch block rethrows in place of falling back
processWithOpenAI_rethrow(data, outcome) == openAIAttempt(outcome)

\* processWithOpenAI(patientData) once the promise has settled
processWithOpenAI(data, outcome) ==
  LET attempt == openAIAttempt(outcome)
  IN  IF attempt.threw THEN processWithMockAI(data) ELSE attempt

----------------------------------------------------------------------------
(* supportController: handleSupportRequest *)

\* res.status(200).json({ success: true, data: {...} })
Success(body, ai) ==
  [status |-> 200,
   body |-> [success |-> TRUE,
             data |-> [patientName |-> body.name, category |-> body.issueCategory,
                       summary |-> ai.summary, urgency |-> ai.urgency]]]

\* res.status(400).json({ success: false, error: validationError })
BadRequest(message) == [status |-> 400, body |-> [success |-> FALSE, error |-> message]]

\* res.status(500).json({ success: false, error: ... }) of the catch block
ServerError ==
  [status |-> 500,
   body |-> [success |-> FALSE,
             error |-> "Failed to process your request. Please try again later."]]

\* the response the handler sends once processPatientIssue has settled
responseFor(body, result) ==
  IF result.threw THEN ServerError ELSE Success(body, result.value)

\* the handler without its try/catch: the exception escapes and nothing is sent
HandleNoBody_uncaught ==
  /\ supPc = "received"
  /\ reqBody = JsUndefined
  /\ supPc' = "done"
  /\ UNCHANGED <<envKey, reqBody, validationError, llmCalls, mockCalls, llmOutcome,
                 aiResponse, responses, aiVars, chatVars, mwVars, uiVars>>

\* the request has no parsed body: destructuring req.body throws, the catch answers
HandleNoBody ==
  /\ supPc = "received"
  /\ reqBody = JsUndefined
  /\ responses' = Append(responses, ServerError)
  /\ supPc' = "done"
  /\ UNCHANGED <<envKey, reqBody, validationError, llmCalls, mockCalls, llmOutcome,
                 aiResponse, aiVars, chatVars, mwVars, uiVars>>

\* the handler that runs the rule-based classifier before it validates
HandleInvalid_processFirst ==
  /\ supPc = "received"
  /\ reqBody # JsUndefined
  /\ validateSupportRequest(reqBody) # "null"
  /\ mockCalls' = mockCalls + 1
  /\ aiResponse' = processWithMockAI(reqBody)
  /\ validationError' = validateSupportRequest(reqBody)
  /\ responses' = Append(responses, BadRequest(validateSupportRequest(reqBody)))
  /\ supPc' = "done"
  /\ UNCHANGED <<envKey, reqBody, llmCalls, llmOutcome, aiVars, chatVars, mwVars, uiVars>>

\* validation fails: 400 with the message
HandleInvalid ==
  /\ supPc = "received"
  /\ reqBody # JsUndefined
  /\ validateSupportRequest(reqBody) # "null"
  /\ validationError' = validateSupportRequest(reqBody)
  /\ responses' = Append(responses, BadRequest(validateSupportRequest(reqBody)))
  /\ supPc' = "done"
  /\ UNCHANGED <<envKey, reqBody, llmCalls, mockCalls, llmOutcome, aiResponse,
                 aiVars, chatVars, mwVars, uiVars>>

\* validation passes and no client is configured: processPatientIssue returns
\* processWithMockAI(patientData), and the handler answers
HandleMock ==
  /\ supPc = "received"
  /\ reqBody # JsUndefined
  /\ validateSupportRequest(reqBody) = "null"
  /\ ~openaiConfigured(envKey)
  /\ validationError' = "null"
  /\ mockCalls' = mockCalls + 1
  /\ aiResponse' = processWithMockAI(reqBody)
  /\ responses' = Append(responses, responseFor(reqBody, processWithMockAI(reqBody)))
  /\ supPc' = "done"
  /\ UNCHANGED <<envKey, reqBody, llmCalls, llmOutcome, aiVars, chatVars, mwVars, uiVars>>

\* validation passes and a client is configured: processWithOpenAI awaits
\* openai.chat.completions.create
HandleCallLLM ==
  /\ supPc = "received"
  /\ reqBody # JsUndefined
  /\ validateSupportRequest(reqBody) = "null"
  /\ openaiConfigured(envKey)
  /\ validationError' = "null"
  /\ llmCalls' = llmCalls + 1
  /\ supPc' = "awaitingLLM"
  /\ UNCHANGED <<envKey, reqBody, mockCalls, llmOutcome, aiResponse, responses,
                 aiVars, chatVars, mwVars, uiVars>>

----------------------------------------------------------------------------
(* Inputs of handleSupportRequest *)

EnvKeys ==
  { JsUndefined, JsString(<<>>), JsString(PLACEHOLDER_KEY),
    JsString(<<"s","k","-","l","i","v","e">>) }

MildHeadache == <<"m","i","l","d"," ","h","e","a","d","a","c","h","e"," ","f","o","r"," ","t","w","o"," ","d","a","y","s">>
RunnyNose == <<" ","a","n","d"," ","a"," ","r","u","n","n","y"," ","n","o","s","e"," ","s","i","n","c","e"," ","m","o","n","d","a","y">>
SevereChestPain == <<"s","e","v","e","r","e"," ","c","h","e","s","t"," ","p","a","i","n"," ","a","n","d"," ","c","a","n","'","t"," ","b","r","e","a","t","h","e">>

SupportNames ==
  { JsString(<<"A","s","h","a">>), JsString(<<"R","a","v","i">>), JsString(<<"A">>) }
SupportAges ==
  { JsFortyTwo, JsNumber(<<"7","0">>), JsNumber(<<"1",".","5">>), JsString(<<>>),
    JsNumber(<<"1","5","1">>), JsUndefined }
SupportCategories == {"Medical", "Mental Health", "Emergency", "Other", "Pediatric"}
SupportDescriptions ==
  { JsString(MildHeadache), JsString(MildHeadache \o RunnyNose),
    JsString(SevereChestPain), JsString(<<"F","E","V","E","R">>) }

SupportBodies ==
  [name : SupportNames, age : SupportAges, issueCategory : SupportCategories,
   description : SupportDescriptions]

SummaryText == "Patient reports a headache lasting two days."

LlmContents ==
  { <<Punct("{"), Str("summary"), Punct(":"), Str(SummaryText), Punct(","),
      Str("urgency"), Punct(":"), Str("High"), Punct("}")>>,
    <<Punct("{"), Str("summary"), Punct(":"), Str(SummaryText), Punct(","),
      Str("urgency"), Punct(":"), Str("high"), Punct("}")>>,
    <<Punct("{"), Str("urgency"), Punct(":"), Str("Low"), Punct("}")>>,
    <<Punct("{"), Str("summary"), Punct(":"), Numeral("42"), Punct(","),
      Str("urgency"), Punct(":"), Str("Low"), Punct("}")>>,
    <<Punct("{"), Str("summary"), Punct(":"), Punct("null"), Punct(","),
      Str("urgency"), Punct(":"), Numeral("3"), Punct("}")>>,
    <<Punct("{"), Punct("}")>>,
    <<Punct("null")>>,
    <<Str(SummaryText)>>,
    <<Word("Sure"), Word("here"), Punct(":"), Punct("{"), Str("summary"), Punct(":"),
      Str(SummaryText), Punct(","), Str("urgency"), Punct(":"), Str("High"),
      Punct("}")>>,
    <<Punct("{"), Str("summary"), Punct(":"), Str(SummaryText), Punct(","),
      Str("urgency"), Punct(":")>>,
    <<>> }

LlmOutcomes ==
  { Rejected("APIConnectionError"), Rejected("APIConnectionTimeoutError"),
    ResolvedNoContent }
    \cup { Resolved(content) : content \in LlmContents }

SupportInit ==
  /\ envKey \in EnvKeys
  /\ reqBody \in SupportBodies \cup {JsUndefined}
  /\ supPc = "received"
  /\ validationError = NoValue
  /\ llmCalls = 0
  /\ mockCalls = 0
  /\ llmOutcome = NoOutcome
  /\ aiResponse = NoValue
  /\ responses = <<>>

\* processWithOpenAI that calls the API a second time after a failed call
LLMSettles_retryOnce ==
  /\ supPc = "awaitingLLM"
  /\ \E outcome \in LlmOutcomes :
       /\ llmOutcome' = outcome
       /\ IF openAIAttempt(outcome).threw /\ llmCalls < 2
            THEN /\ llmCalls' = llmCalls + 1
                 /\ supPc' = "awaitingLLM"
                 /\ UNCHANGED <<mockCalls, aiResponse, responses>>
            ELSE /\ mockCalls' = IF openAIAttempt(outcome).threw
                                   THEN mockCalls + 1 ELSE mockCalls
                 /\ aiResponse' = processWithOpenAI(reqBody, outcome)
                 /\ responses' = Append(responses,
                                        responseFor(reqBody,
                                                    processWithOpenAI(reqBody, outcome)))
                 /\ supPc' = "done"
                 /\ UNCHANGED llmCalls
  /\ UNCHANGED <<envKey, reqBody, validationError, aiVars, chatVars, mwVars, uiVars>>

\* the promise settles: the rest of processWithOpenAI, then of the handler
LLMSettles ==
  /\ supPc = "awaitingLLM"
  /\ \E outcome \in LlmOutcomes :
       /\ llmOutcome' = outcome
       /\ mockCalls' = IF openAIAttempt(outcome).threw THEN mockCalls + 1 ELSE mockCalls
       /\ aiResponse' = processWithOpenAI(reqBody, outcome)
       /\ responses' = Append(responses,
                              responseFor(reqBody, processWithOpenAI(reqBody, outcome)))
  /\ supPc' = "done"
  /\ UNCHANGED <<envKey, reqBody, validationError, llmCalls, aiVars, chatVars, mwVars, uiVars>>

----------------------------------------------------------------------------
(* Inputs of validateSupportRequest *)

\* the string of n characters c
repeat(c, n) == [i \in 1..n |-> c]
\* s with white space around it
padded(s) == <<" ">> \o s \o <<" ", "\t">>

ValidationNames ==
  {JsUndefined, JsFortyTwo}
    \cup { JsString(t) : t \in { <<>>, repeat("a", 1), repeat("a", 2),
                                 padded(repeat("a", 1)), repeat("a", 100),
                                 repeat("a", 101), padded(repeat("a", 100)) } }

ValidationAges ==
  {JsUndefined, JsNull, JsZero, JsFortyTwo, JsTrue, JsEmptyObject}
    \cup { JsNumber(t) : t \in { <<"1","5","0">>, <<"1","5","1">>, <<"-","1">>,
                                 <<"1",".","5">>, <<"1","5","0",".","5">> } }
    \cup { JsString(t) : t \in { <<>>, <<" ">>, <<"4","2">>, <<"a","b","c">>,
                                 <<"1",".","5">> } }

ValidationCategories == {"Medical", "Mental Health", "Pediatric", "", NoValue}

ValidationDescriptions ==
  {JsUndefined}
    \cup { JsString(t) : t \in { repeat("a", 9), repeat("a", 10), repeat("a", 2000),
                                 repeat("a", 2001), padded(repeat("a", 9)),
                                 padded(repeat("a", 2000)) } }

ValidationInputs ==
  [name : ValidationNames, age : ValidationAges,
   issueCategory : ValidationCategories, description : ValidationDescriptions]

ValidateInit ==
  /\ envKey = JsUndefined
  /\ reqBody \in ValidationInputs
  /\ supPc = "validate"
  /\ validationError = NoValue
  /\ llmCalls = 0
  /\ mockCalls = 0
  /\ llmOutcome = NoOutcome
  /\ aiResponse = NoValue
  /\ responses = <<>>

\* validateSupportRequest(reqBody)
ValidateSupportRequest ==
  /\ supPc = "validate"
  /\ validationError' = validateSupportRequest(reqBody)
  /\ supPc' = "validated"
  /\ UNCHANGED <<envKey, reqBody, llmCalls, mockCalls, llmOutcome, aiResponse, responses,
                 aiVars, chatVars, mwVars, uiVars>>

----------------------------------------------------------------------------
(* Inputs of generateSummary: descriptions around the 100-character cut *)

SummaryDescriptions ==
  { <<>>,
    MildHeadache,
    repeat("a", 99),
    repeat("a", 100),
    repeat("a", 100) \o <<" ">>,
    repeat("a", 101),
    repeat("a", 97) \o <<" ", "\t", " ">> \o repeat("b", 5),
    <<" ", " ">> \o repeat("a", 120),
    padded(repeat("a", 96)) \o MildHeadache,
    repeat(" ", 101) }

SummaryInputs ==
  [name : Names, age : Ages, issueCategory : Categories, description : SummaryDescriptions]

SummaryInit ==
  /\ patientData \in SummaryInputs
  /\ aiPc = "ready"
  /\ calcDescription = <<>>
  /\ urgency = NoValue
  /\ summary = NoValue
  /\ served = <<>>

\* generateSummary(issueCategory, description, age)
GenerateSummary ==
  /\ aiPc = "ready"
  /\ summary' = generateSummary(patientData.issueCategory, patientData.description,
                                patientData.age)
  /\ aiPc' = "generateSummary"
  /\ UNCHANGED <<patientData, calcDescription, urgency, served, chatVars, supVars, mwVars, uiVars>>

----------------------------------------------------------------------------
(* processWithMockAI called for one request after another *)

ServedInputs ==
  [name : {JsString(<<"A","s","h","a">>), JsString(<<"R","a","v","i">>)},
   age : {JsFortyTwo, JsNumber(<<"7","0">>)},
   issueCategory : {"Medical", "Other"},
   description : {JsString(MildHeadache), JsString(MildHeadache \o RunnyNose),
                  JsString(SevereChestPain)}]

ServedInit ==
  /\ patientData = [name |-> "", age |-> 0, issueCategory |-> "", description |-> <<>>]
  /\ aiPc = "serving"
  /\ calcDescription = <<>>
  /\ urgency = NoValue
  /\ summary = NoValue
  /\ served = <<>>

\* the next call of processWithMockAI: nothing of the earlier calls is read
ProcessNextWithMockAI ==
  /\ aiPc = "serving"
  /\ Len(served) < MaxServed
  /\ \E data \in ServedInputs :
       served' = Append(served, [patientData |-> data,
                                 returned |-> processWithMockAI(data)])
  /\ UNCHANGED <<patientData, aiPc, calcDescription, urgency, summary, chatVars, supVars, mwVars, uiVars>>

----------------------------------------------------------------------------
(* errorHandler: the global error-handling middleware *)

JsFalse == [type |-> "boolean", chars |-> <<>>]

\* res.json(body): JSON.stringify leaves out a key whose value is undefined
json(body) ==
  [k \in {key \in DOMAIN body : body[key] # JsUndefined} |-> body[k]]

\* errorHandler that sends the error's own message in every environment
errorHandler_alwaysDetail(error, env) ==
  LET statusCode == IF falsy(error.statusCode) THEN JsNumber(<<"5", "0", "0">>)
                    ELSE error.statusCode
  IN  [status |-> statusCode,
       body |-> json([success |-> JsFalse,
                      error |-> JsString(<<error.message>>),
                      stack |-> IF env # JsString(<<"production">>)
                                  THEN error.stack ELSE JsUndefined])]

\* errorHandler(err, req, res, next): the status and the body it sends
errorHandler(error, env) ==
  LET statusCode == IF falsy(error.statusCode) THEN JsNumber(<<"5", "0", "0">>)
                    ELSE error.statusCode
      message == IF env = JsString(<<"production">>)
                   THEN "An unexpected error occurred"
                   ELSE error.message
  IN  [status |-> statusCode,
       body |-> json([success |-> JsFalse,
                      error |-> JsString(<<message>>),
                      stack |-> IF env # JsString(<<"production">>)
                                  THEN error.stack ELSE JsUndefined])]

NodeEnvs ==
  {JsUndefined, JsString(<<>>), JsString(<<"production">>), JsString(<<"development">>),
   JsString(<<"test">>), JsString(<<"Production">>)}

Errors ==
  [statusCode : {JsUndefined, JsZero, JsNumber(<<"4", "0", "0">>),
                 JsNumber(<<"4", "0", "4">>), JsNumber(<<"5", "0", "3">>)},
   message : {"", "Unexpected token } in JSON at position 12",
              "connect ECONNREFUSED 10.0.0.5:5432"},
   stack : {JsUndefined,
            JsString(<<"SyntaxError: Unexpected token } at parse (/app/node_modules/body-parser/lib/types/json.js:89:19)">>)}]

ErrorHandlerInit ==
  /\ nodeEnv \in NodeEnvs
  /\ err \in Errors
  /\ mwPc = "ready"
  /\ errorResponse = NoValue

\* errorHandler(err, req, res, next)
ErrorHandler ==
  /\ mwPc = "ready"
  /\ errorResponse' = errorHandler(err, nodeEnv)
  /\ mwPc' = "sent"
  /\ UNCHANGED <<nodeEnv, err, aiVars, chatVars, supVars, uiVars>>

----------------------------------------------------------------------------
(* Front end: CategoryChip on the result screen *)

ISSUE_CATEGORIES ==
  << [value |-> "general", label |-> "General Medical", color |-> "#6c63ff"],
     [value |-> "emergency", label |-> "Emergency / Critical Care", color |-> "#e53935"],
     [value |-> "mental_health", label |-> "Mental Health & Emotional Support",
      color |-> "#2196f3"],
     [value |-> "womens_health", label |-> "Women's Health", color |-> "#e91e63"],
     [value |-> "child_elderly", label |-> "Child & Elderly Care", color |-> "#ffb300"],
     [value |-> "chronic", label |-> "Chronic Illness Support", color |-> "#8bc34a"],
     [value |-> "disability", label |-> "Disability Assistance", color |-> "#607d8b"],
     [value |-> "medication", label |-> "Medication / Treatment Guidance",
      color |-> "#00bcd4"],
     [value |-> "financial", label |-> "Financial / Aid Assistance", color |-> "#43a047"],
     [value |-> "other", label |-> "Other / Not Sure", color |-> "#bdbdbd"] >>

\* ISSUE_CATEGORIES.find(cat => cat.value === value) || ISSUE_CATEGORIES[0]
getCategoryDetails(value) ==
  LET found == { i \in DOMAIN ISSUE_CATEGORIES : ISSUE_CATEGORIES[i].value = value }
  IN  IF found = {} THEN ISSUE_CATEGORIES[1]
      ELSE ISSUE_CATEGORIES[CHOOSE i \in found : \A j \in found : i <= j]

\* CategoryChip({ value }): the details displayed, none for a falsy value
CategoryChip(value) ==
  IF falsy(value) THEN <<>> ELSE <<getCategoryDetails(value.chars[1])>>

\* the option values of the form's category select, which the backend returns
FormCategoryOptions == {"Medical", "Mental Health", "Emergency", "Other"}

ResultProps ==
  [patientName : {"Asha", "Ravi"},
   category : {JsUndefined, JsString(<<>>)}
                \cup { JsString(<<c>>) : c \in FormCategoryOptions }
                \cup { JsString(<<ISSUE_CATEGORIES[i].value>>) : i \in DOMAIN ISSUE_CATEGORIES },
   urgency : {"Low", "Medium", "High"}]

ResultInit ==
  /\ shownResult \in ResultProps
  /\ chipPc = "ready"
  /\ chipDetails = <<>>

\* ResultDisplay renders <CategoryChip value={result.category} />
RenderCategoryChip ==
  /\ chipPc = "ready"
  /\ chipDetails' = CategoryChip(shownResult.category)
  /\ chipPc' = "rendered"
  /\ UNCHANGED <<shownResult, backVars, widgetVars, formVars, toastVars>>

----------------------------------------------------------------------------
(* Front end: the ChatBot widget *)

WELCOME_MESSAGE ==
  [type |-> "bot", text |-> <<"Hello! I'm Jarurat Care's support assistant. I can help you with: ...">>]

\* the alternatives of /emergency|urgent|critical|danger|help/
emergencyPattern ==
  { <<"e","m","e","r","g","e","n","c","y">>,
    <<"u","r","g","e","n","t">>,
    <<"c","r","i","t","i","c","a","l">>,
    <<"d","a","n","g","e","r">>,
    <<"h","e","l","p">> }

\* getBotResponse(userMsg) of a ChatBot rendered with the given submittedCategory
getBotResponse(userMsg, submittedCategory) ==
  LET text == toLowerCase(userMsg)
      label == IF falsy(submittedCategory) THEN ""
               ELSE getCategoryDetails(submittedCategory.chars[1]).label
  IN  IF \E alternative \in emergencyPattern : includes(text, alternative)
        THEN [reply |-> <<"This sounds like an emergency. Please contact your local emergency services immediately. Our support portal is not a substitute for emergency medical care.">>,
              intent |-> "emergency"]
      ELSE IF includes(text, <<"w","h","a","t"," ","h","a","p","p","e","n","s"," ","a","f","t","e","r"," ","s","u","b","m","i","s","s","i","o","n">>)
        THEN [reply |-> <<"After you submit your request, our team reviews the details and assigns a volunteer based on urgency and category. You will be contacted as soon as possible with next steps.">>,
              intent |-> "process"]
      ELSE IF includes(text, <<"h","o","w"," ","l","o","n","g"," ","w","i","l","l"," ","i","t"," ","t","a","k","e"," ","t","o"," ","r","e","s","p","o","n","d">>)
        THEN [reply |-> <<"Response times depend on urgency and current case load. Emergency cases are prioritized (1-2 hours), while other requests may take up to 48 hours. We appreciate your patience!">>,
              intent |-> "response_time"]
      ELSE IF includes(text, <<"i","s"," ","t","h","i","s"," ","a","n"," ","e","m","e","r","g","e","n","c","y">>)
        THEN [reply |-> <<"If you believe your situation is an emergency, please contact local emergency services immediately. Our portal is for general support and cannot replace urgent care.">>,
              intent |-> "emergency"]
      ELSE IF includes(text, <<"i","s"," ","m","y"," ","d","a","t","a"," ","s","a","f","e">>)
        THEN [reply |-> <<"Your privacy is important to us. All information you provide is kept confidential and used only to connect you with appropriate support. We do not share your data outside the NGO.">>,
              intent |-> "data_safety"]
      ELSE IF includes(text, <<"s","u","p","p","o","r","t"," ","r","e","l","a","t","e","d"," ","t","o"," ","m","y"," ","c","a","t","e","g","o","r","y">>)
        THEN IF ~falsy(submittedCategory)
               THEN [reply |-> <<"You selected the category: ", label,
                                 ". Our volunteers are trained to provide guidance and resources specific to this area. If you have more details or questions, please share them!">>,
                     intent |-> "category_support"]
               ELSE [reply |-> <<"Please select a category in the support form to get more specific guidance.">>,
                     intent |-> "category_support"]
      ELSE IF includes(text, <<"w","h","a","t"," ","m","e","n","t","a","l"," ","h","e","a","l","t","h"," ","s","u","p","p","o","r","t"," ","i","s"," ","a","v","a","i","l","a","b","l","e">>)
        THEN [reply |-> <<"We offer emotional support, information on coping strategies, and can connect you with mental health professionals or helplines. All conversations are confidential.">>,
              intent |-> "mental_health"]
      ELSE IF includes(text, <<"w","h","a","t"," ","s","h","o","u","l","d"," ","i"," ","d","o"," ","i","m","m","e","d","i","a","t","e","l","y">>)
        THEN [reply |-> <<"If you are in immediate danger or experiencing a medical emergency, call your local emergency number now. Our team will also prioritize your request, but do not wait for a response.">>,
              intent |-> "emergency"]
      ELSE IF includes(text, <<"w","h","a","t"," ","d","o","c","u","m","e","n","t","s"," ","a","r","e"," ","r","e","q","u","i","r","e","d">>)
        THEN [reply |-> <<"For financial or aid assistance, please prepare any relevant ID, proof of income, and medical documents. Our volunteers will let you know exactly what is needed after reviewing your case.">>,
              intent |-> "financial"]
      ELSE IF ~falsy(submittedCategory)
        THEN IF submittedCategory = JsString(<<"mental_health">>)
               THEN [reply |-> <<"Since this is related to Mental Health, here are some general steps: ...">>,
                     intent |-> "mental_health"]
             ELSE IF submittedCategory = JsString(<<"emergency">>)
               THEN [reply |-> <<"This appears to be an emergency. Please call emergency services immediately. Our team will prioritize your request, but do not wait for a response if you are in danger.">>,
                     intent |-> "emergency"]
             ELSE IF submittedCategory = JsString(<<"financial">>)
               THEN [reply |-> <<"For Financial/Aid Assistance, please keep required documents ready. Our volunteers will guide you through the process.">>,
                     intent |-> "financial"]
             ELSE [reply |-> <<"Since this is related to ", label,
                               ", our team will review your request and provide general guidance soon.">>,
                   intent |-> "default"]
      ELSE [reply |-> <<"I can provide general guidance about our NGO services, support process, and next steps. For medical emergencies, always contact professionals.">>,
            intent |-> "default"]

\* App renders <ChatBot /> without a submittedCategory prop
submittedCategory == JsUndefined

\* quickOptions: baseOptions, and no category option without a submittedCategory
quickOptions ==
  { <<"W","h","a","t"," ","h","a","p","p","e","n","s"," ","a","f","t","e","r"," ","s","u","b","m","i","s","s","i","o","n","?">>,
    <<"H","o","w"," ","l","o","n","g"," ","w","i","l","l"," ","i","t"," ","t","a","k","e"," ","t","o"," ","r","e","s","p","o","n","d","?">>,
    <<"I","s"," ","t","h","i","s"," ","a","n"," ","e","m","e","r","g","e","n","c","y","?">>,
    <<"I","s"," ","m","y"," ","d","a","t","a"," ","s","a","f","e","?">>,
    <<"S","u","p","p","o","r","t"," ","r","e","l","a","t","e","d"," ","t","o"," ","m","y"," ","c","a","t","e","g","o","r","y">> }

\* what the user types into ChatInput before submitting it
TypedValues ==
  { <<>>, <<" ", " ">>,
    <<"h","e","l","l","o">>,
    <<"I"," ","n","e","e","d"," ","H","E","L","P"," ","n","o","w">>,
    <<" ","i","s"," ","m","y"," ","d","a","t","a"," ","s","a","f","e"," ">> }

WidgetInit ==
  /\ messages = <<WELCOME_MESSAGE>>
  /\ typing = FALSE
  /\ timeouts = <<>>
  /\ sent = <<>>

\* the timer callback of handleSend, replying to the latest message shown
TimeoutFires_latestMessage ==
  /\ timeouts # <<>>
  /\ LET bot == getBotResponse(sent[Len(sent)], submittedCategory)
     IN  messages' = Append(messages, [type |-> "bot", text |-> bot.reply])
  /\ typing' = FALSE
  /\ timeouts' = Tail(timeouts)
  /\ UNCHANGED <<sent, backVars, chipVars, formVars, toastVars>>

\* handleSend(msg) up to its return: the timer is started, not yet fired
handleSend(msg) ==
  IF trim(msg) = <<>>
    THEN UNCHANGED <<messages, typing, timeouts, sent>>
    ELSE /\ Len(sent) < MaxSent
         /\ messages' = Append(messages, [type |-> "user", text |-> msg])
         /\ typing' = TRUE
         /\ timeouts' = Append(timeouts, msg)
         /\ sent' = Append(sent, msg)

\* ChatInput's onSubmit: onSend(value) for a value that is not blank
SubmitChatInput ==
  /\ \E value \in TypedValues :
       IF trim(value) # <<>> THEN handleSend(value)
       ELSE UNCHANGED <<messages, typing, timeouts, sent>>
  /\ UNCHANGED <<backVars, chipVars, formVars, toastVars>>

\* a click on one of the QuickOptions, which are rendered while typing is false
ClickQuickOption ==
  /\ ~typing
  /\ \E option \in quickOptions : handleSend(option)
  /\ UNCHANGED <<backVars, chipVars, formVars, toastVars>>

\* the 900 ms timer of the earliest pending handleSend fires: timers with the
\* same delay fire in the order they were started
TimeoutFires ==
  /\ timeouts # <<>>
  /\ LET msg == Head(timeouts)
         bot == getBotResponse(msg, submittedCategory)
     IN  messages' = Append(messages, [type |-> "bot", text |-> bot.reply])
  /\ typing' = FALSE
  /\ timeouts' = Tail(timeouts)
  /\ UNCHANGED <<sent, backVars, chipVars, formVars, toastVars>>

----------------------------------------------------------------------------
(* Front end: toasts of the App (state and re-rendering) *)

\* times in units of 100 ms: toast.duration || 3000, the 300 ms between
\* hideTimer and removeTimer, the 200 ms delay of handleClose
DEFAULT_DURATION == 30
EXIT_ANIMATION == 3
CLOSE_DELAY == 2

\* a timer that has fired or was cleared
NotRunning == 0 - 1

toastIds(list) == { list[i].id : i \in DOMAIN list }

\* ++toastId gives an id no toast ever had. Ids are only compared for equality,
\* so the model counts within 1..MaxId and passes over the ids still in use by
\* a toast of the list or by a pending timeout of handleClose
MaxId == MaxToasts + 1
idsInUse == toastIds(toasts) \cup DOMAIN closeTimers
generateToastId ==
  LET free == (1..MaxId) \ idsInUse
      later == { id \in free : id > toastId }
      least(ids) == CHOOSE id \in ids : \A other \in ids : id <= other
  IN  IF later # {} THEN least(later) ELSE least(free)

\* the timers the effect of a Toast starts: hideTimer and removeTimer
startedTimers(duration) == [hide |-> duration - EXIT_ANIMATION, remove |-> duration]

\* ToastContainer has rendered the list: every Toast gets a new onClose, so its
\* effect is cleaned up and run again, which restarts both timers; a timer that
\* is due at that moment may fire before the cleanup clears it
restartedTimers(list, running) ==
  LET ids == toastIds(list)
      durationOf(id) == (CHOOSE t \in { list[i] : i \in DOMAIN list } : t.id = id).duration
      choices(id) ==
        IF id \notin DOMAIN running THEN { startedTimers(durationOf(id)) }
        ELSE { [hide |-> h, remove |-> r] :
                 h \in {startedTimers(durationOf(id)).hide}
                         \cup (IF running[id].hide = 0 THEN {0} ELSE {}),
                 r \in {startedTimers(durationOf(id)).remove}
                         \cup (IF running[id].remove = 0 THEN {0} ELSE {}) }
  IN  { f \in [ids -> UNION { choices(id) : id \in ids }] :
          \A id \in ids : f[id] \in choices(id) }

\* prev.filter(toast => toast.id !== id)
removeToast(list, id) == SelectSeq(list, LAMBDA toast : toast.id # id)

\* showToast(toast): the new toast is appended and the container re-renders
showToast(toast) ==
  /\ toastId' = generateToastId
  /\ toasts' = Append(toasts, [id |-> generateToastId, message |-> toast.message,
                               type |-> IF toast.type = "" THEN "info" ELSE toast.type,
                               duration |-> DEFAULT_DURATION])
  /\ timers' \in restartedTimers(toasts', timers)
  /\ UNCHANGED <<hidden, closeTimers, otherRenders>>

\* setToasts(prev => removeToast(prev, id)): the Toasts that are gone are
\* unmounted (their state and timers with them) and the container re-renders
removeAndRender(id, running) ==
  /\ toasts' = removeToast(toasts, id)
  /\ hidden' = hidden \cap toastIds(toasts')
  /\ timers' \in restartedTimers(toasts', running)

\* App re-renders for a change of its other state: the list is unchanged
rerenderApp ==
  /\ timers' \in restartedTimers(toasts, timers)
  /\ UNCHANGED <<toasts, toastId, hidden, closeTimers, otherRenders>>

----------------------------------------------------------------------------
(* Front end: App and PatientSupportForm *)

INITIAL_FORM_DATA ==
  [name |-> JsString(<<>>), age |-> JsString(<<>>), issueCategory |-> JsString(<<>>),
   description |-> JsString(<<>>)]

\* no handleSubmit call yet
NoSubmit == [requestData |-> <<>>, response |-> <<>>, outcome |-> "none"]

\* the decimal text of a natural number
RECURSIVE decimalText(_)
decimalText(n) ==
  IF n < 10 THEN <<Digits[n + 1]>>
  ELSE decimalText(n \div 10) \o <<Digits[(n % 10) + 1]>>

\* Number(formData.age) as a JavaScript value
numberValue(value) ==
  LET n == Number(value)
  IN  IF value.type = "number" THEN value
      ELSE IF n.nan THEN JsNumber(<<"N", "a", "N">>)
      ELSE IF n.int = 0 /\ ~n.frac THEN JsZero
      ELSE IF n.frac \/ n.neg THEN JsNumber(trim(value.chars))
      ELSE JsNumber(decimalText(n.int))

\* the effect on initialData: each field || ''
prefilled(initialData) ==
  [k \in DOMAIN initialData |->
     IF falsy(initialData[k]) THEN JsString(<<>>) ELSE initialData[k]]

\* validateForm(): newErrors
validateForm(formData) ==
  LET name == trim(formData.name.chars)
      description == trim(formData.description.chars)
      ageNum == Number(formData.age)
      nameError ==
        IF name = <<>> THEN <<"Name is required">>
        ELSE IF Len(name) < 2 THEN <<"Name must be at least 2 characters">> ELSE <<>>
      ageError ==
        IF falsy(formData.age) THEN <<"Age is required">>
        ELSE IF isNaN(ageNum) \/ lessThanZero(ageNum) \/ greaterThan(ageNum, 150)
          THEN <<"Please enter a valid age (0-150)">> ELSE <<>>
      categoryError ==
        IF falsy(formData.issueCategory) THEN <<"Please select a category">> ELSE <<>>
      descriptionError ==
        IF description = <<>> THEN <<"Description is required">>
        ELSE IF Len(description) < 10 THEN <<"Please provide at least 10 characters">>
        ELSE <<>>
      found == [name |-> nameError, age |-> ageError, issueCategory |-> categoryError,
                description |-> descriptionError]
  IN  [k \in { key \in DOMAIN found : found[key] # <<>> } |-> found[k][1]]

\* { ...formData, age: Number(formData.age) }
requestDataOf(formData) == [formData EXCEPT !.age = numberValue(formData.age)]

\* what submitSupportRequest resolves with: the parsed JSON of the response, or
\* its own failure object when fetch or response.json() throws
ConnectionFailure ==
  [isNull |-> FALSE, success |-> FALSE,
   error |-> "Unable to connect to the server. Please check your connection and try again.",
   data |-> <<>>]
JsonNull == [isNull |-> TRUE, success |-> FALSE, error |-> "", data |-> <<>>]
FailureJson(message) == [isNull |-> FALSE, success |-> FALSE, error |-> message, data |-> <<>>]
SuccessJson(data) == [isNull |-> FALSE, success |-> TRUE, error |-> "", data |-> <<data>>]

\* the responses the backend (or the network) can give to a request
ApiResults(requestData) ==
  { SuccessJson([patientName |-> requestData.name, category |-> requestData.issueCategory,
                 summary |-> SummaryText, urgency |-> u]) : u \in {"Low", "High"} }
    \cup { FailureJson("Name must not exceed 100 characters"),
           FailureJson("Failed to process your request. Please try again later."),
           FailureJson(""), ConnectionFailure, JsonNull }

FormNames == {JsString(<<>>), JsString(<<"A","s","h","a">>)}
FormAges == {JsString(<<>>), JsString(<<"0">>), JsString(<<"4","2">>), JsString(<<"1","5","1">>)}
FormCategories == {JsString(<<>>), JsString(<<"Medical">>)}
FormDescriptions == {JsString(<<>>), JsString(<<"c","o","u","g","h">>), JsString(MildHeadache)}
FieldValues ==
  [name |-> FormNames, age |-> FormAges, issueCategory |-> FormCategories,
   description |-> FormDescriptions]

\* the App after its first render, the form mounted and its effect run
AppInit ==
  /\ appFormData = INITIAL_FORM_DATA
  /\ appResult = <<>>
  /\ showResult = FALSE
  /\ appPc = "init"
  /\ fields = prefilled(INITIAL_FORM_DATA)
  /\ errors = <<>>
  /\ isSubmitting = FALSE
  /\ apiError = "null"
  /\ pending = <<>>
  /\ apiRequests = 0
  /\ submits = 0
  /\ lastSubmit = NoSubmit
  /\ toasts = <<>>
  /\ toastId = 0
  /\ timers = <<>>
  /\ hidden = {}
  /\ closeTimers = <<>>
  /\ otherRenders = 0

\* handleChange(e): the user edits one field of the displayed, enabled form
HandleChange ==
  /\ ~showResult
  /\ ~isSubmitting
  /\ \E name \in DOMAIN FieldValues :
       \E value \in FieldValues[name] :
         /\ value # fields[name]
         /\ fields' = [fields EXCEPT ![name] = value]
         /\ errors' = IF name \in DOMAIN errors /\ errors[name] # "null"
                        THEN [errors EXCEPT ![name] = "null"] ELSE errors
  /\ apiError' = "null"
  /\ UNCHANGED <<appFormData, appResult, showResult, appPc, isSubmitting, pending,
                 apiRequests, submits, lastSubmit>>
  /\ UNCHANGED <<backVars, chipVars, widgetVars, toastVars>>

\* handleSubmit(e) up to its await: validation, then the request is sent
HandleSubmit ==
  /\ ~showResult
  /\ ~isSubmitting
  /\ submits < MaxSubmits
  /\ submits' = submits + 1
  /\ errors' = validateForm(fields)
  /\ IF DOMAIN validateForm(fields) # {}
       THEN /\ lastSubmit' = [requestData |-> <<>>, response |-> <<>>, outcome |-> "invalid"]
            /\ UNCHANGED <<isSubmitting, apiError, pending, apiRequests>>
       ELSE /\ isSubmitting' = TRUE
            /\ apiError' = "null"
            /\ pending' = <<requestDataOf(fields)>>
            /\ apiRequests' = apiRequests + 1
            /\ lastSubmit' = [requestData |-> <<requestDataOf(fields)>>, response |-> <<>>,
                              outcome |-> "awaiting"]
  /\ UNCHANGED <<appFormData, appResult, showResult, appPc, fields>>
  /\ UNCHANGED <<backVars, chipVars, widgetVars, toastVars>>

\* handleSubmit whose finally block is missing
SubmitFails_noFinally ==
  /\ pending # <<>>
  /\ \E response \in { r \in ApiResults(pending[1]) : r.isNull \/ ~r.success } :
       /\ apiError' = IF response.isNull
                        THEN "Unable to connect to server. Please try again later."
                        ELSE IF response.error = "" THEN "Failed to submit request"
                        ELSE response.error
       /\ lastSubmit' = [lastSubmit EXCEPT !.response = <<response>>, !.outcome = "apiError"]
  /\ pending' = <<>>
  /\ UNCHANGED <<appFormData, appResult, showResult, appPc, fields, errors, isSubmitting,
                 apiRequests, submits>>
  /\ UNCHANGED <<backVars, chipVars, widgetVars, toastVars>>

\* the awaited call resolves without success (or with null, which throws in the
\* try): apiError is set, finally clears isSubmitting, the form stays
SubmitFails ==
  /\ pending # <<>>
  /\ \E response \in { r \in ApiResults(pending[1]) : r.isNull \/ ~r.success } :
       /\ apiError' = IF response.isNull
                        THEN "Unable to connect to server. Please try again later."
                        ELSE IF response.error = "" THEN "Failed to submit request"
                        ELSE response.error
       /\ lastSubmit' = [lastSubmit EXCEPT !.response = <<response>>, !.outcome = "apiError"]
  /\ isSubmitting' = FALSE
  /\ pending' = <<>>
  /\ UNCHANGED <<appFormData, appResult, showResult, appPc, fields, errors,
                 apiRequests, submits>>
  /\ UNCHANGED <<backVars, chipVars, widgetVars, toastVars>>

\* the awaited call resolves with success: onSuccess(requestData, response.data)
\* is handleSubmissionSuccess, which shows the result and a toast; the form is
\* unmounted and its state is gone
SubmitSucceeds ==
  /\ pending # <<>>
  /\ \E response \in { r \in ApiResults(pending[1]) : ~r.isNull /\ r.success } :
       /\ appFormData' = pending[1]
       /\ appResult' = response.data
       /\ lastSubmit' = [lastSubmit EXCEPT !.response = <<response>>, !.outcome = "onSuccess"]
  /\ showResult' = TRUE
  /\ appPc' = "handleSubmissionSuccess"
  /\ showToast([message |-> "Request submitted successfully! Our team will review it shortly.",
                type |-> "success"])
  /\ fields' = INITIAL_FORM_DATA
  /\ errors' = <<>>
  /\ isSubmitting' = FALSE
  /\ apiError' = "null"
  /\ pending' = <<>>
  /\ UNCHANGED <<apiRequests, submits>>
  /\ UNCHANGED <<backVars, chipVars, widgetVars>>

\* handleNewRequest that clears the result and keeps showing the result view
HandleNewRequest_keepShowing ==
  /\ showResult
  /\ appFormData' = INITIAL_FORM_DATA
  /\ appResult' = <<>>
  /\ appPc' = "handleNewRequest"
  /\ rerenderApp
  /\ UNCHANGED <<showResult, fields, errors, isSubmitting, apiError, pending, apiRequests,
                 submits, lastSubmit>>
  /\ UNCHANGED <<backVars, chipVars, widgetVars>>

\* handleEditRequest(): the form is mounted again with initialData = formData
HandleEditRequest ==
  /\ showResult
  /\ showResult' = FALSE
  /\ appPc' = "handleEditRequest"
  /\ fields' = prefilled(appFormData)
  /\ rerenderApp
  /\ UNCHANGED <<appFormData, appResult, errors, isSubmitting, apiError, pending, apiRequests,
                 submits, lastSubmit>>
  /\ UNCHANGED <<backVars, chipVars, widgetVars>>

\* handleNewRequest(): everything is reset and the form is mounted again
HandleNewRequest ==
  /\ showResult
  /\ appFormData' = INITIAL_FORM_DATA
  /\ appResult' = <<>>
  /\ showResult' = FALSE
  /\ appPc' = "handleNewRequest"
  /\ fields' = prefilled(INITIAL_FORM_DATA)
  /\ rerenderApp
  /\ UNCHANGED <<errors, isSubmitting, apiError, pending, apiRequests, submits, lastSubmit>>
  /\ UNCHANGED <<backVars, chipVars, widgetVars>>

----------------------------------------------------------------------------
(* Front end: the toasts in time *)

ToastTypes == {"", "success"}

\* the App with no toast
ToastInit ==
  /\ toasts = <<>>
  /\ toastId = 0
  /\ timers = <<>>
  /\ hidden = {}
  /\ closeTimers = <<>>
  /\ otherRenders = 0

timerDue ==
  \/ \E id \in DOMAIN timers : timers[id].hide = 0 \/ timers[id].remove = 0
  \/ \E id \in DOMAIN closeTimers : closeTimers[id] = 0

elapsed(t) == IF t > 0 THEN t - 1 ELSE t

\* showToast(toast), called by handleCopySummary or handleSubmissionSuccess
ShowToast ==
  /\ Len(toasts) < MaxToasts
  /\ idsInUse # 1..MaxId
  /\ \E type \in ToastTypes :
       showToast([message |-> "Summary copied to clipboard!", type |-> type])
  /\ UNCHANGED <<backVars, chipVars, widgetVars, formVars>>

\* hideTimer of a Toast fires: setIsVisible(false), only the Toast re-renders
HideTimerFires ==
  /\ \E id \in DOMAIN timers :
       /\ timers[id].hide = 0
       /\ timers' = [timers EXCEPT ![id].hide = NotRunning]
       /\ hidden' = hidden \cup {id}
  /\ UNCHANGED <<toasts, toastId, closeTimers, otherRenders>>
  /\ UNCHANGED <<backVars, chipVars, widgetVars, formVars>>

\* removeTimer of a Toast fires: onClose() is removeToast(toast.id)
RemoveTimerFires ==
  /\ \E id \in DOMAIN timers :
       /\ timers[id].remove = 0
       /\ removeAndRender(id, [timers EXCEPT ![id].remove = NotRunning])
  /\ UNCHANGED <<toastId, closeTimers, otherRenders>>
  /\ UNCHANGED <<backVars, chipVars, widgetVars, formVars>>

\* handleClose(): the close button of a displayed toast is clicked (once per
\* toast); its timeout is not cleared when the Toast unmounts
ManualClose ==
  /\ \E id \in toastIds(toasts) \ DOMAIN closeTimers :
       /\ hidden' = hidden \cup {id}
       /\ closeTimers' = [k \in DOMAIN closeTimers \cup {id} |->
                            IF k = id THEN CLOSE_DELAY ELSE closeTimers[k]]
  /\ UNCHANGED <<toasts, toastId, timers, otherRenders>>
  /\ UNCHANGED <<backVars, chipVars, widgetVars, formVars>>

\* the timeout of handleClose fires: onClose() is removeToast(toast.id), also
\* when the toast is gone already
CloseTimerFires ==
  /\ \E id \in DOMAIN closeTimers :
       /\ closeTimers[id] = 0
       /\ closeTimers' = [k \in DOMAIN closeTimers \ {id} |-> closeTimers[k]]
       /\ removeAndRender(id, timers)
  /\ UNCHANGED <<toastId, otherRenders>>
  /\ UNCHANGED <<backVars, chipVars, widgetVars, formVars>>

\* the App re-renders while toasts are shown (handleEditRequest, handleNewRequest)
OtherRender ==
  /\ toasts # <<>>
  /\ otherRenders < MaxRenders
  /\ otherRenders' = otherRenders + 1
  /\ timers' \in restartedTimers(toasts, timers)
  /\ UNCHANGED <<toasts, toastId, hidden, closeTimers>>
  /\ UNCHANGED <<backVars, chipVars, widgetVars, formVars>>

\* 100 ms pass; a timer that is due fires before more time passes
Tick ==
  /\ ~timerDue
  /\ timers' = [id \in DOMAIN timers |->
                  [hide |-> elapsed(timers[id].hide), remove |-> elapsed(timers[id].remove)]]
  /\ closeTimers' = [id \in DOMAIN closeTimers |-> elapsed(closeTimers[id])]
  /\ <<timers', closeTimers'>> # <<timers, closeTimers>>
  /\ UNCHANGED <<toasts, toastId, hidden, otherRenders>>
  /\ UNCHANGED <<backVars, chipVars, widgetVars, formVars>>

----------------------------------------------------------------------------
(* Specifications *)

AiIdle ==
  /\ patientData = [name |-> "", age |-> 0, issueCategory |-> "", description |-> <<>>]
  /\ aiPc = "off"
  /\ calcDescription = <<>>
  /\ urgency = NoValue
  /\ summary = NoValue
  /\ served = <<>>

ChatIdle ==
  /\ userMessage = JsUndefined
  /\ chatPc = "off"
  /\ matchedIntent = null
  /\ chatReply = [reply |-> <<>>]

SupIdle ==
  /\ envKey = JsUndefined
  /\ reqBody = JsUndefined
  /\ supPc = "off"
  /\ validationError = NoValue
  /\ llmCalls = 0
  /\ mockCalls = 0
  /\ llmOutcome = NoOutcome
  /\ aiResponse = NoValue
  /\ responses = <<>>

MwIdle ==
  /\ nodeEnv = JsUndefined
  /\ err = [statusCode |-> JsUndefined, message |-> "", stack |-> JsUndefined]
  /\ mwPc = "off"
  /\ errorResponse = NoValue

BackIdle == AiIdle /\ ChatIdle /\ SupIdle /\ MwIdle

ChipIdle ==
  /\ shownResult = [patientName |-> "", category |-> JsUndefined, urgency |-> ""]
  /\ chipPc = "off"
  /\ chipDetails = <<>>

WidgetIdle ==
  /\ messages = <<>>
  /\ typing = FALSE
  /\ timeouts = <<>>
  /\ sent = <<>>

FormIdle ==
  /\ appFormData = INITIAL_FORM_DATA
  /\ appResult = <<>>
  /\ showResult = FALSE
  /\ appPc = "off"
  /\ fields = INITIAL_FORM_DATA
  /\ errors = <<>>
  /\ isSubmitting = FALSE
  /\ apiError = "null"
  /\ pending = <<>>
  /\ apiRequests = 0
  /\ submits = 0
  /\ lastSubmit = NoSubmit

ToastIdle ==
  /\ toasts = <<>>
  /\ toastId = 0
  /\ timers = <<>>
  /\ hidden = {}
  /\ closeTimers = <<>>
  /\ otherRenders = 0

UiIdle == ChipIdle /\ WidgetIdle /\ FormIdle /\ ToastIdle

\* the rule-based classifier on every input
InitAi == AiInit /\ ChatIdle /\ SupIdle /\ MwIdle /\ UiIdle
NextAi == ProcessWithMockAI \/ CalculateUrgency
SpecAi == InitAi /\ [][NextAi]_vars

\* generateSummary on descriptions around the cut
InitSummary == SummaryInit /\ ChatIdle /\ SupIdle /\ MwIdle /\ UiIdle
NextSummary == GenerateSummary
SpecSummary == InitSummary /\ [][NextSummary]_vars

\* the rule-based path over a sequence of requests
InitServed == ServedInit /\ ChatIdle /\ SupIdle /\ MwIdle /\ UiIdle
NextServed == ProcessNextWithMockAI
SpecServed == InitServed /\ [][NextServed]_vars

\* the chatbot on every message
InitChat == ChatInit /\ AiIdle /\ SupIdle /\ MwIdle /\ UiIdle
NextChat == ProcessMessage
SpecChat == InitChat /\ [][NextChat]_vars

\* one support request from its arrival to its response
InitSupport == SupportInit /\ AiIdle /\ ChatIdle /\ MwIdle /\ UiIdle
NextSupport ==
  HandleNoBody \/ HandleInvalid \/ HandleMock \/ HandleCallLLM \/ LLMSettles
SpecSupport == InitSupport /\ [][NextSupport]_vars

\* the global error handler on every error
InitErrorHandler == ErrorHandlerInit /\ AiIdle /\ ChatIdle /\ SupIdle /\ UiIdle
NextErrorHandler == ErrorHandler
SpecErrorHandler == InitErrorHandler /\ [][NextErrorHandler]_vars

\* the category chip of the result screen on every result
InitResult == ResultInit /\ BackIdle /\ WidgetIdle /\ FormIdle /\ ToastIdle
NextResult == RenderCategoryChip
SpecResult == InitResult /\ [][NextResult]_vars

\* the chat widget: messages sent and their timers
InitWidget == WidgetInit /\ BackIdle /\ ChipIdle /\ FormIdle /\ ToastIdle
NextWidget == SubmitChatInput \/ ClickQuickOption \/ TimeoutFires
SpecWidget == InitWidget /\ [][NextWidget]_vars
\* a timer that is due fires
SpecWidgetFair == SpecWidget /\ WF_vars(TimeoutFires)

\* the App with its form: editing, submitting, Edit Request, Submit Another Request
InitApp == AppInit /\ BackIdle /\ ChipIdle /\ WidgetIdle
NextApp ==
  HandleChange \/ HandleSubmit \/ SubmitFails \/ SubmitSucceeds \/ HandleEditRequest
    \/ HandleNewRequest
SpecApp == InitApp /\ [][NextApp]_vars

\* the toasts of the App in time: shown, hidden, removed by timer or by hand
InitToast == ToastInit /\ BackIdle /\ ChipIdle /\ WidgetIdle /\ FormIdle
NextToast ==
  ShowToast \/ HideTimerFires \/ RemoveTimerFires \/ ManualClose \/ CloseTimerFires
    \/ OtherRender \/ Tick
SpecToast == InitToast /\ [][NextToast]_vars
\* time passes and due timers fire; nothing obliges the user to act
SpecToastFair ==
  /\ SpecToast
  /\ WF_vars(Tick) /\ WF_vars(HideTimerFires) /\ WF_vars(RemoveTimerFires)
  /\ WF_vars(CloseTimerFires)

\* the validator on every request body
InitValidate == ValidateInit /\ AiIdle /\ ChatIdle /\ MwIdle /\ UiIdle
NextValidate == ValidateSupportRequest
SpecValidate == InitValidate /\ [][NextValidate]_vars

----------------------------------------------------------------------------
(* Properties of calculateUrgency, checked under SpecAi *)

\* calculateUrgency has returned
Classified == aiPc \in {"processWithMockAI", "calculateUrgency"}

hasHighKeyword(description) == someIncluded(highUrgencyKeywords, description)
hasMediumKeyword(description) == someIncluded(mediumUrgencyKeywords, description)
noUrgencyKeyword(description) ==
  ~hasHighKeyword(description) /\ ~hasMediumKeyword(description)

Urgencies == {"Low", "Medium", "High"}

\* C1: a description that contains a high-urgency keyword as a substring is
\* classified High, whatever the category and the age.
C1_HighKeywordYieldsHigh ==
  (Classified /\ hasHighKeyword(calcDescription)) => urgency = "High"

\* C1 witness: a high-urgency keyword, category Other, age below 65.
C1_Witness ==
  /\ Classified
  /\ hasHighKeyword(calcDescription)
  /\ patientData.issueCategory = "Other"
  /\ patientData.age < 65
  /\ urgency = "High"

\* C2: category Emergency is classified High for every description and age.
C2_EmergencyYieldsHigh ==
  (Classified /\ patientData.issueCategory = "Emergency") => urgency = "High"

\* C2 witness: the empty description with category Emergency.
C2_Witness ==
  /\ Classified
  /\ patientData.issueCategory = "Emergency"
  /\ calcDescription = <<>>
  /\ patientData.age < 65
  /\ urgency = "High"

\* C3: category Mental Health without a high-urgency keyword is never
\* classified Low.
C3_MentalHealthAtLeastMedium ==
  (Classified /\ patientData.issueCategory = "Mental Health"
     /\ ~hasHighKeyword(calcDescription))
    => urgency \in {"Medium", "High"}

\* C3 witness: Mental Health, no keyword at all, a short description, age below 65.
C3_Witness ==
  /\ Classified
  /\ patientData.issueCategory = "Mental Health"
  /\ noUrgencyKeyword(calcDescription)
  /\ Len(calcDescription) <= 30
  /\ patientData.age < 65
  /\ urgency = "Medium"

\* the case C4 is about: elderly, a long description, no keyword
ElderlyLongNoKeyword ==
  /\ Classified
  /\ patientData.age >= 65
  /\ Len(calcDescription) > 30
  /\ noUrgencyKeyword(calcDescription)

\* C4 as stated: age at least 65, a description longer than 30 characters and
\* no urgency keyword yield Medium.
C4_Original == ElderlyLongNoKeyword => urgency = "Medium"

\* C4 amended: age at least 65, a description longer than 30 characters and no
\* urgency keyword yield Medium unless the category is Emergency, which yields High.
C4_ElderlyLongYieldsMedium ==
  ElderlyLongNoKeyword =>
    urgency = IF patientData.issueCategory = "Emergency" THEN "High" ELSE "Medium"

\* C4 witness: age exactly 65, a description of exactly 31 characters, category Medical.
C4_Witness ==
  /\ ElderlyLongNoKeyword
  /\ patientData.age = 65
  /\ Len(calcDescription) = 31
  /\ patientData.issueCategory = "Medical"
  /\ urgency = "Medium"

\* C5: no high- or medium-urgency keyword, age below 65 and a category that is
\* neither Emergency nor Mental Health yield Low.
C5_AllDefaultYieldsLow ==
  (Classified /\ noUrgencyKeyword(calcDescription) /\ patientData.age < 65
     /\ patientData.issueCategory \notin {"Emergency", "Mental Health"})
    => urgency = "Low"

\* C5 witness: "mild headache for two days", Medical, age 30.
C5_Witness ==
  /\ aiPc = "processWithMockAI"
  /\ calcDescription = <<"m","i","l","d"," ","h","e","a","d","a","c","h","e"," ",
                         "f","o","r"," ","t","w","o"," ","d","a","y","s">>
  /\ patientData.issueCategory = "Medical"
  /\ patientData.age = 30
  /\ urgency = "Low"

\* the case C6 is about: no keyword, non-elderly, not Mental Health
NoKeywordYoungNotMentalHealth ==
  /\ Classified
  /\ noUrgencyKeyword(calcDescription)
  /\ patientData.age < 65
  /\ patientData.issueCategory # "Mental Health"

\* C6 as stated: no urgency keyword, age below 65 and a category other than
\* Mental Health always yield Low.
C6_Original == NoKeywordYoungNotMentalHealth => urgency = "Low"

\* C6 amended: no urgency keyword, age below 65 and a category other than
\* Mental Health yield Low, except for category Emergency, which yields High.
C6_DefaultLowExceptEmergency ==
  NoKeywordYoungNotMentalHealth =>
    urgency = IF patientData.issueCategory = "Emergency" THEN "High" ELSE "Low"

\* C6 witness: a description longer than 30 characters, category Other, age 64.
C6_Witness ==
  /\ NoKeywordYoungNotMentalHealth
  /\ patientData.issueCategory = "Other"
  /\ patientData.age = 64
  /\ Len(calcDescription) > 30
  /\ urgency = "Low"

\* C7: calculateUrgency returns one of Low, Medium, High for every description,
\* every category label and every age.
C7_UrgencyIsTotal == Classified => urgency \in Urgencies

\* C7 witness: a category label outside the four valid ones and a description
\* that is not lower-cased.
C7_Witness ==
  /\ aiPc = "calculateUrgency"
  /\ patientData.issueCategory \notin summaryTemplateKeys
  /\ calcDescription # toLowerCase(calcDescription)
  /\ urgency \in Urgencies

----------------------------------------------------------------------------
(* Properties of findMatchingIntent and processMessage, checked under SpecChat *)

Replied == chatPc = "replied"

\* the message is a string with a character that is not white space
NonBlankMessage ==
  /\ userMessage.type = "string"
  /\ \E i \in DOMAIN userMessage.chars : userMessage.chars[i] \notin WhiteSpace

\* the distinct keywords of a keyword list that occur in the lower-cased message
keywordsOccurring(keywords, message) ==
  { keywords[k] : k \in { j \in DOMAIN keywords :
                            includes(toLowerCase(message), keywords[j]) } }

hasEmergencyKeyword(message) == keywordsOccurring(EMERGENCY_KEYWORDS, message) # {}

\* the positions in FAQ_INTENTS of the intents scored by keyword count
ScoredIntents == { i \in DOMAIN FAQ_INTENTS : FAQ_INTENTS[i].id # "emergency" }

hits(i, message) == Cardinality(keywordsOccurring(FAQ_INTENTS[i].keywords, message))

\* the earliest registered among the scored intents with the greatest count
earliestBest(message) ==
  CHOOSE i \in ScoredIntents :
    /\ \A j \in ScoredIntents : hits(j, message) <= hits(i, message)
    /\ \A j \in ScoredIntents : hits(j, message) = hits(i, message) => i <= j

\* C8: a message that contains an emergency keyword, in whatever letter case,
\* gets the emergency intent, however many keywords of other intents it contains.
C8_EmergencyKeywordWins ==
  (Replied /\ NonBlankMessage /\ hasEmergencyKeyword(userMessage.chars))
    => matchedIntent.id = "emergency"

\* C8 witness: an emergency keyword in upper case next to a keyword of another intent.
C8_Witness ==
  /\ Replied
  /\ NonBlankMessage
  /\ hasEmergencyKeyword(userMessage.chars)
  /\ userMessage.chars # toLowerCase(userMessage.chars)
  /\ \E i \in ScoredIntents : hits(i, userMessage.chars) > 0
  /\ matchedIntent.id = "emergency"

\* the message is non-blank and contains no keyword of any intent
NoKeywordMessage ==
  /\ NonBlankMessage
  /\ \A i \in DOMAIN FAQ_INTENTS :
       keywordsOccurring(FAQ_INTENTS[i].keywords, userMessage.chars) = {}

\* C9: a non-blank message with no keyword of any intent gets no intent and the
\* reply DEFAULT_RESPONSE followed by the disclaimer, and no other input gets
\* DEFAULT_RESPONSE.
C9_DefaultIffNoKeyword ==
  Replied =>
    /\ NoKeywordMessage =>
         /\ matchedIntent = null
         /\ chatReply.reply = <<DEFAULT_RESPONSE, SAFETY_DISCLAIMER>>
    /\ chatReply.reply[1] = DEFAULT_RESPONSE => NoKeywordMessage

\* C9 witness: a message without any keyword, answered with the default response.
C9_Witness ==
  /\ Replied
  /\ NoKeywordMessage
  /\ matchedIntent = null
  /\ chatReply.reply = <<DEFAULT_RESPONSE, SAFETY_DISCLAIMER>>

\* "hello, what services do you provide?"
HelloWhatServices ==
  <<"h","e","l","l","o",",", " ","w","h","a","t"," ","s","e","r","v","i","c","e","s",
    " ","d","o"," ","y","o","u"," ","p","r","o","v","i","d","e","?">>

C11_ReplyEndsWithDisclaimer ==
  /\ chatPc \in {"off", "ready", "replied"}
  /\ Replied =>
       /\ Len(chatReply.reply) > 0
       /\ chatReply.reply[Len(chatReply.reply)] = SAFETY_DISCLAIMER

\* C11 witness: a truthy value that is not a string is answered with the disclaimer.
C11_Witness ==
  /\ Replied
  /\ userMessage.type # "string"
  /\ ~falsy(userMessage)
  /\ chatReply.reply[Len(chatReply.reply)] = SAFETY_DISCLAIMER

----------------------------------------------------------------------------
(* Properties of validateSupportRequest, checked under SpecValidate *)

Validated == supPc = "validated"
Accepted == Validated /\ validationError = "null"

\* the age is a number, or a numeric string, that denotes an integer of 0..150
ageIsIntegerInRange(age) ==
  /\ age.type \in {"number", "string"}
  /\ age.type = "string" => trim(age.chars) # <<>>
  /\ LET n == parseDecimal(IF age.type = "string" THEN trim(age.chars) ELSE age.chars)
     IN  ~n.nan /\ ~n.frac /\ (n.neg => n.int = 0) /\ n.int <= 150

\* C15: a request is accepted only if its age is an integer of 0..150, so that
\* every other age (missing, non-numeric, fractional, the empty string, out of
\* range) is rejected.
C15_OnlyIntegerAgesAccepted == Accepted => ageIsIntegerInRange(reqBody.age)

\* the trimmed length of a field that is a string
trimmedLength(value) == Len(trim(value.chars))

NameInBounds ==
  /\ reqBody.name.type = "string"
  /\ trimmedLength(reqBody.name) >= 2
  /\ trimmedLength(reqBody.name) <= 100

DescriptionInBounds ==
  /\ reqBody.description.type = "string"
  /\ trimmedLength(reqBody.description) >= 10
  /\ trimmedLength(reqBody.description) <= 2000

----------------------------------------------------------------------------
(* Properties of handleSupportRequest and processPatientIssue, checked under
   SpecSupport *)

Done == supPc = "done"

\* the LLM call failed: the promise was rejected (network error, timeout), the
\* completion has no content, its content is not valid JSON, or it is the JSON
\* null, which has no properties to read
LlmFailed ==
  \/ llmOutcome.kind = "rejected"
  \/ llmOutcome.kind = "resolved-null-content"
  \/ llmOutcome.kind = "resolved" /\ JSONparse(llmOutcome.content).threw
  \/ llmOutcome.kind = "resolved" /\ llmOutcome.content = <<Punct("null")>>

\* C12: when the LLM call fails, processWithOpenAI returns what processWithMockAI
\* returns for the same patient data and the request is answered 200 with it;
\* the failure is not surfaced.
C12_LlmFailureFallsBack ==
  (Done /\ LlmFailed)
    => /\ ~aiResponse.threw
       /\ aiResponse = processWithMockAI(reqBody)
       /\ responses = <<Success(reqBody, processWithMockAI(reqBody).value)>>

\* C12 witness: a completion that is prose around the JSON, answered 200.
C12_Witness ==
  /\ Done
  /\ llmOutcome.kind = "resolved"
  /\ llmOutcome.content # <<>>
  /\ JSONparse(llmOutcome.content).threw
  /\ mockCalls = 1
  /\ responses[1].status = 200

\* OPENAI_API_KEY is unset, empty or the placeholder
KeyMissing == envKey \in {JsUndefined, JsString(<<>>), JsString(PLACEHOLDER_KEY)}

\* C13: without a configured key the LLM is never called, and a valid request
\* gets the result of processWithMockAI for the same input.
C13_NoKeyMeansRuleBased ==
  KeyMissing =>
    /\ llmCalls = 0
    /\ supPc # "awaitingLLM"
    /\ (Done /\ validationError = "null") =>
         /\ mockCalls = 1
         /\ aiResponse = processWithMockAI(reqBody)

\* C13 witness: the placeholder key, a valid request answered from the rule-based path.
C13_Witness ==
  /\ Done
  /\ envKey = JsString(PLACEHOLDER_KEY)
  /\ validationError = "null"
  /\ llmCalls = 0
  /\ responses[1].status = 200

\* C14: a request that fails validateSupportRequest is answered 400 with
\* {success: false, error: <the validation message>}, and neither the LLM nor
\* the rule-based classifier is invoked for it.
C14_InvalidAnswered400 ==
  (Done /\ reqBody # JsUndefined /\ validateSupportRequest(reqBody) # "null")
    => /\ responses = <<BadRequest(validateSupportRequest(reqBody))>>
       /\ llmCalls = 0
       /\ mockCalls = 0

\* C14 witness: an invalid request on a server with a live key, answered 400.
C14_Witness ==
  /\ Done
  /\ openaiConfigured(envKey)
  /\ validationError \notin {"null", NoValue}
  /\ responses[1].status = 400
  /\ responses[1].body.error = validationError
  /\ llmCalls = 0

\* C17: every 200 response carries patientName and category as submitted, a
\* summary that is a string and an urgency of Low, Medium, High, on the
\* rule-based path and on the LLM path, whatever JSON the LLM returns.
C17_SuccessDataWellFormed ==
  (Done /\ responses[1].status = 200)
    => /\ responses[1].body.data.patientName = reqBody.name
       /\ responses[1].body.data.category = reqBody.issueCategory
       /\ responses[1].body.data.summary.type = "string"
       /\ responses[1].body.data.urgency \in Urgencies

\* C18: a request gets exactly one response, with status 200, 400 or 500, once
\* the handler is done and none before; an exception (a missing body) is
\* answered 500 with the generic message; the handler can always go on until done.
C18_ExactlyOneResponse ==
  /\ Len(responses) <= 1
  /\ Done <=> Len(responses) = 1
  /\ \A i \in DOMAIN responses : responses[i].status \in {200, 400, 500}
  /\ (Done /\ reqBody = JsUndefined) => responses = <<ServerError>>
  /\ \A i \in DOMAIN responses :
       responses[i].status = 500 => responses[i] = ServerError
  /\ supPc \in {"received", "awaitingLLM"} => ENABLED NextSupport

\* C18 witness: a request without a body, answered 500 once.
C18_Witness ==
  /\ Done
  /\ reqBody = JsUndefined
  /\ responses = <<ServerError>>

----------------------------------------------------------------------------
(* Properties of generateSummary, checked under SpecSummary *)

Summarised == aiPc = "generateSummary"

\* the preview as the claim words it: the description, or its first 100
\* characters without their trailing white space, then "..."
previewAsClaimed(description) ==
  IF Len(description) <= 100 THEN description
  ELSE trimEnd(substring(description, 0, 100)) \o <<".", ".", ".">>

\* C20: generateSummary interpolates the description unchanged when it has at
\* most 100 characters, and otherwise its first 100 characters with trailing
\* white space removed followed by "..."; the template is the category's, and
\* the Other template for any category outside the four known ones.
C20_SummaryAsClaimed ==
  Summarised =>
    summary = [type |-> "string",
               template |-> IF patientData.issueCategory \in summaryTemplateKeys
                              THEN patientData.issueCategory ELSE "Other",
               age |-> patientData.age,
               issuePreview |-> previewAsClaimed(patientData.description)]

----------------------------------------------------------------------------
(* Properties of processWithMockAI over several requests, checked under
   SpecServed *)

\* two requests agree on description, issueCategory and age
sameClassifierInputs(a, b) ==
  /\ a.description = b.description
  /\ a.issueCategory = b.issueCategory
  /\ a.age = b.age

\* C19: on the rule-based path two requests that agree on description,
\* issueCategory and age get the same summary and urgency, whatever their
\* names and whatever was processed before or between them.
C19_SameInputsSameResult ==
  \A i, j \in DOMAIN served :
    sameClassifierInputs(served[i].patientData, served[j].patientData)
      => /\ ~served[i].returned.threw
         /\ served[i].returned = served[j].returned

\* C19 witness: two requests served one after the other that differ only in
\* the patient's name, with equal results.
C19_Witness ==
  /\ Len(served) = 2
  /\ sameClassifierInputs(served[1].patientData, served[2].patientData)
  /\ served[1].patientData.name # served[2].patientData.name
  /\ served[1].returned.value.urgency = served[2].returned.value.urgency
  /\ served[1].returned.value.summary = served[2].returned.value.summary

----------------------------------------------------------------------------
(* Properties of errorHandler, checked under SpecErrorHandler *)

ErrorSent == mwPc = "sent"
InProduction == nodeEnv = JsString(<<"production">>)

\* C21: in production the errorHandler response holds only the generic message
\* "An unexpected error occurred", no stack and not the error's own message;
\* outside production it holds err.message and the stack; in both cases success
\* is false and the status is err.statusCode or 500.
C21_ProductionHidesDetail ==
  ErrorSent =>
    /\ errorResponse.body.success = JsFalse
    /\ errorResponse.status = IF err.statusCode \in {JsUndefined, JsZero}
                                THEN JsNumber(<<"5", "0", "0">>) ELSE err.statusCode
    /\ InProduction =>
         /\ DOMAIN errorResponse.body = {"success", "error"}
         /\ errorResponse.body.error = JsString(<<"An unexpected error occurred">>)
    /\ ~InProduction =>
         /\ errorResponse.body.error = JsString(<<err.message>>)
         /\ err.stack # JsUndefined =>
              /\ "stack" \in DOMAIN errorResponse.body
              /\ errorResponse.body.stack = err.stack

\* C21 witness: an error with a message and a stack handled in production.
C21_Witness ==
  /\ ErrorSent
  /\ InProduction
  /\ err.message = "connect ECONNREFUSED 10.0.0.5:5432"
  /\ err.stack # JsUndefined
  /\ err.statusCode = JsNumber(<<"5", "0", "3">>)
  /\ errorResponse.status = JsNumber(<<"5", "0", "3">>)

----------------------------------------------------------------------------
(* Calls made for one support request, checked under SpecSupport *)

\* C23: for a support request openai.chat.completions.create is called at most
\* once and processWithMockAI runs at most once; a failed call is not repeated,
\* and processWithMockAI runs only when no client is configured or after the
\* one call has failed.
C23_AtMostOneCallEach ==
  /\ llmCalls <= 1
  /\ mockCalls <= 1
  /\ (Done /\ LlmFailed) => (llmCalls = 1 /\ mockCalls = 1)
  /\ mockCalls = 1 => (KeyMissing \/ (llmCalls = 1 /\ LlmFailed))
  /\ (mockCalls = 1 /\ KeyMissing) => llmCalls = 0

\* C23 witness: the call timed out and the rule-based classifier ran once after it.
C23_Witness ==
  /\ Done
  /\ llmOutcome = Rejected("APIConnectionTimeoutError")
  /\ llmCalls = 1
  /\ mockCalls = 1

----------------------------------------------------------------------------
(* Properties of getCategoryDetails and CategoryChip, checked under SpecResult *)

ChipRendered == chipPc = "rendered"
BackendCategory ==
  /\ shownResult.category.type = "string"
  /\ shownResult.category.chars # <<>>
  /\ shownResult.category.chars[1] \in FormCategoryOptions

\* C30: for each category the backend can return (Medical, Mental Health,
\* Emergency, Other) the chip shows the ISSUE_CATEGORIES entry whose value is
\* that category, not the default first entry standing in for a missing one.
C30_ChipShowsSameCategory ==
  (ChipRendered /\ BackendCategory)
    => /\ Len(chipDetails) = 1
       /\ chipDetails[1].value = shownResult.category.chars[1]

----------------------------------------------------------------------------
(* Monotonicity of calculateUrgency, checked under SpecAi *)

\* Low < Medium < High
urgencyRank(level) ==
  CASE level = "Low" -> 1 [] level = "Medium" -> 2 [] level = "High" -> 3 [] OTHER -> 0

\* texts appended to a description: without keyword, with a medium keyword,
\* with a high keyword
AppendedTexts ==
  { <<>>, <<" ","s","i","n","c","e"," ","m","o","n","d","a","y">>,
    <<" ","a","n","d"," ","f","e","v","e","r">>,
    <<" ","b","l","o","o","d">> }

\* C29: for a fixed category, appending text to the description or raising the
\* age never lowers the urgency calculateUrgency returns (Low < Medium < High).
C29_UrgencyMonotone ==
  Classified =>
    \A text \in AppendedTexts :
      \A age \in { a \in {patientData.age, 65, 150} : a >= patientData.age } :
        urgencyRank(calculateUrgency(calcDescription \o text,
                                     patientData.issueCategory, age))
          >= urgencyRank(urgency)

\* C29 witness: a Low result that appended text and a higher age raise to Medium.
C29_Witness ==
  /\ Classified
  /\ urgency = "Low"
  /\ patientData.age = 64
  /\ Len(calcDescription) = 26
  /\ calculateUrgency(calcDescription \o <<" ","s","i","n","c","e"," ","m","o","n","d","a","y">>,
                      patientData.issueCategory, 65) = "Medium"
  /\ calculateUrgency(calcDescription \o <<" ","b","l","o","o","d">>,
                      patientData.issueCategory, 64) = "High"

----------------------------------------------------------------------------
(* Properties of the ChatBot widget, checked under SpecWidget and SpecWidgetFair *)

userMessages == SelectSeq(messages, LAMBDA m : m.type = "user")
\* the bot messages after the welcome message
botReplies == Tail(SelectSeq(messages, LAMBDA m : m.type = "bot"))
\* the position in messages of the k-th message of the given type
positionOf(type, k) ==
  CHOOSE i \in DOMAIN messages :
    /\ messages[i].type = type
    /\ Cardinality({ j \in 1..i : messages[j].type = type }) = k

\* every message sent is shown once, and the replies so far answer the first
\* messages in order, each placed after the message it answers
C24_RepliesInOrder ==
  /\ [n \in DOMAIN userMessages |-> userMessages[n].text] = sent
  /\ Len(botReplies) + Len(timeouts) = Len(sent)
  /\ \A k \in DOMAIN botReplies :
       /\ botReplies[k].text = getBotResponse(sent[k], submittedCategory).reply
       /\ positionOf("user", k) < positionOf("bot", k + 1)
  /\ \A k \in DOMAIN timeouts : timeouts[k] = sent[Len(botReplies) + k]

\* C24: every non-blank message passed to handleSend is appended as one user
\* message and is eventually followed by exactly one bot reply computed from
\* it; the replies come in the order of the messages, also when several
\* messages are sent before the first timer fires.
C24_EveryMessageAnswered ==
  /\ []C24_RepliesInOrder
  /\ \A k \in 1..MaxSent : (Len(sent) >= k) ~> (Len(botReplies) >= k)

\* C24 witness: two messages sent before the first timer fired, answered in order.
C24_Witness ==
  /\ Len(sent) = 2
  /\ sent[1] # sent[2]
  /\ Len(messages) = 5
  /\ messages[2].type = "user" /\ messages[3].type = "user"
  /\ messages[4].type = "bot" /\ messages[5].type = "bot"
  /\ messages[4].text # messages[5].text
  /\ timeouts = <<>>

\* C25: typing is true in every state where a sent message has no reply yet,
\* and false when no reply is pending, also when a second message is sent
\* while the first reply is pending.
C25_TypingWhilePending == typing <=> (timeouts # <<>>)

----------------------------------------------------------------------------
(* Claims about the App and its form *)

\* what an input shows for a value: the text of a string, the decimal text of a number
inputText(value) == IF value = JsZero THEN <<"0">> ELSE value.chars

EditRequestStep == showResult /\ ~showResult' /\ appPc' = "handleEditRequest"
NewRequestStep == showResult /\ appPc' = "handleNewRequest"
SettleStep == pending # <<>> /\ pending' = <<>>

\* C22: when "Edit Request" is chosen after a successful submission, the form
\* comes back with name, age, issueCategory and description showing exactly the
\* submitted values, for every valid submission, age 0 included.
C22_EditKeepsSubmittedData ==
  [][EditRequestStep =>
       \A k \in DOMAIN INITIAL_FORM_DATA :
         inputText(fields'[k]) = inputText(lastSubmit.requestData[1][k])]_vars

\* C27: a submission that passed validateForm ends either in onSuccess with the
\* submitted data and the result, only for a response with success = true, or
\* in apiError set with the form still shown, never both; isSubmitting is false
\* once it has ended, also when the call threw; a submission that fails
\* validation sends no request.
C27_SubmissionOutcomes ==
  /\ [](pending = <<>> => ~isSubmitting)
  /\ [][SettleStep =>
          LET response == lastSubmit'.response[1]
              onSuccess == /\ showResult'
                           /\ appFormData' = pending[1]
                           /\ appResult' = response.data
                           /\ appResult' # <<>>
              failed == /\ apiError' # "null"
                        /\ ~showResult'
                        /\ fields' = fields
                        /\ UNCHANGED <<appFormData, appResult>>
          IN  /\ onSuccess # failed
              /\ onSuccess => (~response.isNull /\ response.success /\ apiError' = "null")
              /\ failed => (response.isNull \/ ~response.success)
              /\ ~isSubmitting']_vars
  /\ [][submits' # submits =>
          IF \E k \in DOMAIN fields :
               \/ falsy(fields[k])
               \/ k = "name" /\ Len(trim(fields[k].chars)) < 2
               \/ k = "description" /\ Len(trim(fields[k].chars)) < 10
               \/ k = "age" /\ (isNaN(Number(fields[k])) \/ lessThanZero(Number(fields[k]))
                                  \/ greaterThan(Number(fields[k]), 150))
            THEN apiRequests' = apiRequests /\ pending' = <<>> /\ ~isSubmitting'
            ELSE apiRequests' = apiRequests + 1 /\ pending' # <<>>]_vars

\* C27 witness: a valid submission whose call threw has ended with apiError
\* set, the form shown and isSubmitting false.
C27_Witness ==
  /\ lastSubmit.outcome = "apiError"
  /\ lastSubmit.response[1].isNull
  /\ apiError = "Unable to connect to server. Please try again later."
  /\ ~showResult
  /\ ~isSubmitting
  /\ apiRequests = 1

\* C28: whenever the result view is shown there is a result; "Submit Another
\* Request" resets formData, result and showResult to their initial values and
\* "Edit Request" changes showResult only.
C28_ResultViewHasResult ==
  /\ [](showResult => appResult # <<>>)
  /\ [][NewRequestStep =>
          /\ appFormData' = INITIAL_FORM_DATA
          /\ appResult' = <<>>
          /\ showResult' = FALSE]_vars
  /\ [][EditRequestStep => UNCHANGED <<appFormData, appResult, toasts>>]_vars

\* C28 witness: after a successful submission "Submit Another Request" was chosen
\* and the empty form is shown again.
C28_Witness ==
  /\ appPc = "handleNewRequest"
  /\ lastSubmit.outcome = "onSuccess"
  /\ ~showResult
  /\ appResult = <<>>
  /\ appFormData = INITIAL_FORM_DATA

----------------------------------------------------------------------------
(* Claims about the toasts *)

\* a step that takes toasts out of the list takes out exactly the toast with
\* one id, whose remove timer or close timeout was due, and keeps the others
RemovesOnlyThatToast ==
  toastIds(toasts') # toastIds(toasts) \cup toastIds(toasts') =>
    \E id \in toastIds(toasts) :
      /\ \/ timers[id].remove = 0
         \/ id \in DOMAIN closeTimers /\ closeTimers[id] = 0
      /\ toasts' = SelectSeq(toasts, LAMBDA toast : toast.id # id)

C26_RemovesOnlyThatToast == [][RemovesOnlyThatToast]_vars

\* C26: every toast that showToast added is removed from the list in the end by
\* its own timer, with no user action needed, also when other toasts are added
\* or removed while it is shown; a removal, by timer or by the close button,
\* takes out only the toast with that id.
C26_ToastsAutoDismissed ==
  /\ \A id \in 1..MaxId : (id \in toastIds(toasts)) ~> (id \notin toastIds(toasts))
  /\ [][RemovesOnlyThatToast]_vars

============================================================================
